---- MODULE Spec2Model ----
(***************************************************************************)
(* The request-composition-and-caching engine of gsheets-getter-functions: *)
(* RequestBuilder (add / run) and RequestCache (build / parse / live /     *)
(* cache / get / saveCache / getCache), over a localStorage cache and the  *)
(* Google Sheets backend reached through axios.                            *)
(*                                                                         *)
(* JavaScript values are tagged tuples, so that any two of them compare:   *)
(*   <<"undefined">>   <<"null">>   <<"str", s>>   <<"arr", elems>>        *)
(*   <<"obj", props>>  with props a sequence of <<key, value>> pairs in    *)
(*   insertion order,  <<"builder", id>>  a RequestBuilder instance,       *)
(*   <<"request", rc>>  a RequestCache instance,  <<"num", n>>  a number,  *)
(*   <<"string", tokens>>  a string a step function builds from parts,     *)
(*   <<"throw", error>>  the outcome of a step function that throws.       *)
(***************************************************************************)
EXTENDS Integers, Sequences, FiniteSets, TLC

(***************************************************************************)
(* JavaScript values and JSON                                              *)
(***************************************************************************)
Undefined == <<"undefined">>

Null == <<"null">>

Str(s) == <<"str", s>>

Num(n) == <<"num", n>>

\* A string built from parts, as the sequence of its tokens.
Text(tokens) == <<"string", tokens>>

Arr(elems) == <<"arr", elems>>

\* What an async function hands back at once for the value it returns later.
Resolved(value) == value

\* The promise an async function returns: it resolves to value.
Promise(value) == <<"promise", value>>

Obj(props) == <<"obj", props>>

\* The indices of the properties of props whose key is k.
PropIndex(props, k) == {n \in 1..Len(props) : props[n][1] = k}

\* object[key] = value: an existing key keeps its place, a new key goes last.
SetProp(props, k, v) ==
    IF PropIndex(props, k) = {}
    THEN Append(props, <<k, v>>)
    ELSE [n \in 1..Len(props) |-> IF props[n][1] = k THEN <<k, v>> ELSE props[n]]

\* array[index], undefined past the end of the array.
At(seq, n) == IF n \in 1..Len(seq) THEN seq[n] ELSE Undefined

\* object[key], undefined when the object has no such property (or is none).
Get(object, k) ==
    IF object[1] = "obj" /\ PropIndex(object[2], k) # {}
    THEN object[2][CHOOSE n \in PropIndex(object[2], k) : TRUE][2]
    ELSE Undefined

\* The elements of a value that is an array, none for any other value.
Elems(list) == IF list[1] = "arr" THEN list[2] ELSE <<>>

\* underscore where(list, {k: v}): the elements whose property k is v.
where(list, k, v) ==
    LET Matches(e) == Get(e, k) = v
    IN  SelectSeq(Elems(list), Matches)

\* underscore pluck(list, k): the property k of each element.
pluck(elems, k) == [n \in 1..Len(elems) |-> Get(elems[n], k)]

\* underscore indexOf(array, value): the first index of value, counted from 0,
\* or -1.
indexOf(elems, v) ==
    IF \E n \in 1..Len(elems) : elems[n] = v
    THEN (CHOOSE n \in 1..Len(elems) :
             elems[n] = v /\ \A m \in 1..(n - 1) : elems[m] # v) - 1
    ELSE -1

\* The properties of props whose value is not undefined, in order.
RECURSIVE DefinedProps(_)
DefinedProps(props) ==
    IF props = <<>> THEN <<>>
    ELSE (IF Head(props)[2] # Undefined THEN <<Head(props)>> ELSE <<>>)
         \o DefinedProps(Tail(props))

\* What JSON.stringify keeps of a value: a property whose value is undefined
\* is omitted, an undefined array element becomes null.
RECURSIVE JsonTree(_)
JsonTree(v) ==
    CASE v[1] = "arr" ->
           Arr([n \in 1..Len(v[2]) |->
                   IF v[2][n] = Undefined THEN Null ELSE JsonTree(v[2][n])])
      [] v[1] = "obj" ->
           LET kept == DefinedProps(v[2])
           IN  Obj([n \in 1..Len(kept) |-> <<kept[n][1], JsonTree(kept[n][2])>>])
      [] OTHER -> v

\* The text localStorage.setItem(key, JSON.stringify(value)) stores:
\* JSON.stringify(undefined) is undefined, which setItem stores as the string
\* "undefined"; any other text is written as the tree it denotes.
JsonStringify(v) ==
    IF v = Undefined THEN <<"text", "undefined">> ELSE <<"json", JsonTree(v)>>

\* JSON.parse: the text "undefined" is a SyntaxError.
JsonParses(text) == text[1] = "json"

JsonParse(text) == text[2]

(***************************************************************************)
(* Strings of the request URL.  A string is a sequence of tokens, each     *)
(* token standing for the characters it spells.  No token is a prefix of   *)
(* another, so two token sequences spell the same string only when they    *)
(* are equal.                                                              *)
(***************************************************************************)
Dimensions == {"ROWS", "COLUMNS"}

\* encodeURIComponent on one token: ":" and "%" are escaped, letters, digits
\* and "!" are left as they are.
EncodeToken(c) ==
    CASE c = ":" -> <<"%", "3A">>
      [] c = "%" -> <<"%", "25">>
      [] OTHER   -> <<c>>

RECURSIVE encodeURIComponent(_)
encodeURIComponent(str) ==
    IF str = <<>> THEN <<>>
    ELSE EncodeToken(Head(str)) \o encodeURIComponent(Tail(str))

\* A build that leaves the formatting flag out of the URL.
buildWithoutFormat(apiKey, sheetId, range, dimension, isFormatted) ==
    <<"https://sheets.googleapis.com/v4/spreadsheets/">> \o sheetId
        \o <<"/values/">> \o encodeURIComponent(range)
        \o <<"?majorDimension=", dimension>>
        \o <<"&valueRenderOption=", "FORMATTED_VALUE">>
        \o <<"&key=">> \o apiKey

\* RequestCache.build: the request URL, only the range being encoded.
build(apiKey, sheetId, range, dimension, isFormatted) ==
    LET formatText == IF isFormatted THEN "FORMATTED_VALUE" ELSE "UNFORMATTED_VALUE"
    IN  <<"https://sheets.googleapis.com/v4/spreadsheets/">> \o sheetId
            \o <<"/values/">> \o encodeURIComponent(range)
            \o <<"?majorDimension=", dimension>>
            \o <<"&valueRenderOption=", formatText>>
            \o <<"&key=">> \o apiKey

\* md5 of the URL.  The digest is taken to be free of collisions on the URLs
\* of the model: it is the URL under a tag, so that equal digests mean equal
\* URLs and nothing of the URL is used through the digest.
md5(url) == <<"md5", url>>

\* new RequestCache(apiKey, sheetId, range, dimension, isFormatted): the URL
\* and the key are computed at construction, no parser is set.
NewRequestCache(apiKey, sheetId, range, dimension, isFormatted) ==
    LET url == build(apiKey, sheetId, range, dimension, isFormatted)
    IN  [url |-> url, requestKey |-> md5(url), parser |-> "none",
         closure |-> Undefined]

\* setParser returns the instance with the parser set.
setParser(rc, parser) == [rc EXCEPT !.parser = parser]

\* The parser set is a function value: its code, by name, and the variables
\* of the step function it was written in, which it closes over.
Closing(rc, closure) == [rc EXCEPT !.closure = closure]

(***************************************************************************)
(* Grids and parsers.  The backend answers a request with a grid           *)
(* <<"grid", rows>>, each row a sequence of cells, or with no values at    *)
(* all (undefined) for an empty range.                                     *)
(***************************************************************************)
Grid(rows) == <<"grid", rows>>

\* The object built by headers.forEach((key, index) => object[key] = row[index])
\* over the first n headers.
RECURSIVE RowObject(_, _, _)
RowObject(headers, row, n) ==
    IF n = 0 THEN <<>>
    ELSE SetProp(RowObject(headers, row, n - 1), headers[n][2], At(row, n))

\* A twoDimensionParser that does not set the header row aside: response[0]
\* becomes a record like every other row.
twoDimensionParserAllRows(response) ==
    IF response = Undefined
    THEN [ok |-> FALSE, value |-> Undefined, error |-> "TypeError"]
    ELSE LET rows    == response[2]
             headers == At(rows, 1)
         IN  [ok    |-> TRUE,
              value |-> Arr([r \in 1..Len(rows) |->
                               Obj(RowObject(headers, rows[r], Len(headers)))]),
              error |-> "none"]

\* RequestCache.twoDimensionParser: response[0] is the header row, every later
\* row becomes one object, in order.  Reading response[0] of undefined throws.
twoDimensionParser(response) ==
    IF response = Undefined
    THEN [ok |-> FALSE, value |-> Undefined, error |-> "TypeError"]
    ELSE LET rows    == response[2]
             headers == At(rows, 1)
             dataset == SubSeq(rows, 2, Len(rows))
         IN  [ok    |-> TRUE,
              value |-> Arr([r \in 1..Len(dataset) |->
                               Obj(RowObject(headers, dataset[r], Len(headers)))]),
              error |-> "none"]

\* The parser of getBonusPointsAllocations: a record of three fixed cells.
\* Reading [0] of a row that is not there throws.
bonusPointsParser(response) ==
    IF response = Undefined \/ Len(response[2]) < 3
    THEN [ok |-> FALSE, value |-> Undefined, error |-> "TypeError"]
    ELSE LET rows == response[2]
         IN  [ok    |-> TRUE,
              value |-> Obj(<< <<"noRecord", At(rows[1], 1)>>,
                               <<"equal", At(rows[2], 1)>>,
                               <<"beat", At(rows[3], 1)>> >>),
              error |-> "none"]

\* The parser of getEventResults, closing over matchingYearLetters.  The
\* response holds one column per sub-event; of column i, two cells (pos, pts)
\* per form of the year go, with the form letter, to table i of a, b, c, rb,
\* total; a column past the fifth goes nowhere.  Each table, under the headers
\* letter, pos, pts, is put through twoDimensionParser.  dataset.length of no
\* values throws.
ResultsTab(dataset, letters, i) ==
    << <<Str("letter"), Str("pos"), Str("pts")>> >>
       \o (IF i \in 1..Len(dataset)
           THEN [j \in 1..Len(letters) |->
                   <<Get(letters[j], "form"),
                     At(dataset[i], 2 * j - 1), At(dataset[i], 2 * j)>>]
           ELSE <<>>)

eventResultsParser(response, matchingYearLetters) ==
    IF response = Undefined
    THEN [ok |-> FALSE, value |-> Undefined, error |-> "TypeError"]
    ELSE LET Tab(i) == twoDimensionParser(
                          Grid(ResultsTab(response[2], Elems(matchingYearLetters), i))).value
         IN  [ok    |-> TRUE,
              value |-> Obj(<< <<"a", Tab(1)>>, <<"b", Tab(2)>>, <<"c", Tab(3)>>,
                               <<"rb", Tab(4)>>, <<"total", Tab(5)>> >>),
              error |-> "none"]

\* The parser of getFormResults, closing over eventsList.  For event i the
\* next five columns of the response give one line: the event's db and pretty,
\* then cells [0][0], [0][1], [1][0], [1][1], [2][0], [2][1], [3][1], [4][1] of
\* the five.  Reading a cell of a column that is not there throws.  The lines,
\* under the ten headers, are put through twoDimensionParser.
FormResultsLine(dataset, event, i) ==
    LET Col(c) == dataset[5 * (i - 1) + c]
    IN  <<Get(event, "db"), Get(event, "pretty"),
          At(Col(1), 1), At(Col(1), 2), At(Col(2), 1), At(Col(2), 2),
          At(Col(3), 1), At(Col(3), 2), At(Col(4), 2), At(Col(5), 2)>>

formResultsParser(response, eventsList) ==
    LET events == Elems(eventsList)
    IN  IF events # <<>> /\ (response = Undefined \/ Len(response[2]) < 5 * Len(events))
        THEN [ok |-> FALSE, value |-> Undefined, error |-> "TypeError"]
        ELSE twoDimensionParser(
                Grid(<< <<Str("eventDb"), Str("eventPretty"), Str("posA"), Str("ptsA"),
                          Str("posB"), Str("ptsB"), Str("posC"), Str("ptsC"),
                          Str("ptsRB"), Str("ptsTOTAL")>> >>
                     \o [i \in 1..Len(events) |->
                           FormResultsLine(response[2], events[i], i)]))

\* A parser a caller of the library passes to setParser, reading one cell as
\* the parser above reads three: response => response[1][0].  Reading [0] of a
\* row that is not there throws; a cell the row lacks is undefined.
firstDataCell(response) ==
    IF response = Undefined \/ Len(response[2]) < 2
    THEN [ok |-> FALSE, value |-> Undefined, error |-> "TypeError"]
    ELSE [ok |-> TRUE, value |-> At(response[2][2], 1), error |-> "none"]

\* RequestCache.parse: without a parser it throws, else it applies the parser.
parse(rc, response) ==
    CASE rc.parser = "none" ->
           [ok |-> FALSE, value |-> Undefined, error |-> "parser not specified"]
      [] rc.parser = "twoDimensionParser" -> twoDimensionParser(response)
      [] rc.parser = "bonusPointsParser" -> bonusPointsParser(response)
      [] rc.parser = "firstDataCell" -> firstDataCell(response)
      [] rc.parser = "eventResultsParser" -> eventResultsParser(response, rc.closure)
      [] rc.parser = "formResultsParser" -> formResultsParser(response, rc.closure)

(***************************************************************************)
(* Bounds and the client of the engine                                     *)
(***************************************************************************)
\* The number of times the data behind the backend changes.
MaxBackendChanges == 1

\* The number of RequestBuilder instances add and the constructor create when
\* any step may be added to any pipeline.
MaxBuilders == 4

\* The number of RequestCache instances constructed side by side.
MaxRequests == 2

\* The credentials every pipeline of the client is bound to.
ApiKey == <<"k">>

SheetId == <<"s">>

\* The step functions of the client.  A "request" step is the closure of
\* newRequest, returning a new RequestCache with its parser set; a "builder"
\* step returns the RequestBuilder with that id; a "values" step is a plain
\* function returning a copy of the values it was given.
RequestStep(range, parser) ==
    [kind |-> "request", range |-> range, dimension |-> "ROWS",
     isFormatted |-> FALSE, parser |-> parser, id |-> 0, closure |-> Undefined]

BuilderStep(id) ==
    [kind |-> "builder", range |-> <<>>, dimension |-> "ROWS",
     isFormatted |-> FALSE, parser |-> "none", id |-> id, closure |-> Undefined]

\* A step function that returns what an async method returns for builder id.
AsyncStep(id) ==
    [kind |-> "async", range |-> <<>>, dimension |-> "ROWS",
     isFormatted |-> FALSE, parser |-> "none", id |-> id, closure |-> Undefined]

ValuesStep ==
    [kind |-> "values", range |-> <<>>, dimension |-> "ROWS",
     isFormatted |-> FALSE, parser |-> "none", id |-> 0, closure |-> Undefined]

StepA == RequestStep(<<"a">>, "twoDimensionParser")

StepB == RequestStep(<<"b">>, "twoDimensionParser")

\* A request for range a on which setParser is never called.
StepNoParser == RequestStep(<<"a">>, "none")

\* A request for range a whose parser takes the first data cell.
StepCell == RequestStep(<<"a">>, "firstDataCell")

(***************************************************************************)
(* GSheetsAPI: the domain queries                                          *)
(***************************************************************************)
\* String.fromCharCode(code) for the codes of "@" and "A" to "Z".
fromCharCode(code) ==
    <<"@", "A", "B", "C", "D", "E", "F", "G", "H", "I", "J", "K", "L", "M", "N",
      "O", "P", "Q", "R", "S", "T", "U", "V", "W", "X", "Y", "Z">>[code - 63]

\* A remainder that is one too large.
JsRemOff(n, d) == (n + 1) % d

\* number % 26 and (number / 26) >> 0 of JavaScript: the remainder has the
\* sign of the dividend and the quotient is cut towards zero.
JsRem(n, d) == IF n < 0 THEN -((-n) % d) ELSE n % d

JsQuot(n, d) == IF n < 0 THEN -((-n) \div d) ELSE n \div d

\* The do-while loop of intToSpreadsheetColLetter, entered with number and
\* the letters found so far.
RECURSIVE ColLetterLoop(_, _)
ColLetterLoop(number, letters) ==
    LET n    == number - 1
        next == <<fromCharCode(65 + JsRem(n, 26))>> \o letters
    IN  IF JsQuot(n, 26) > 0 THEN ColLetterLoop(JsQuot(n, 26), next) ELSE next

\* intToSpreadsheetColLetter(number), for number >= 0.
intToSpreadsheetColLetter(number) == ColLetterLoop(number, <<>>)

\* The ranges of the events list and of the forms list.
EventsRange == <<"event_list!A2", ":", "F13">>

FormsRange == <<"summary!A3", ":", "B37">>

\* A step function that closes over variables of the query, and the step
\* function of newRequest for a COLUMNS range with a parser that closes over
\* values of earlier steps.
ClosureStep(kind, closure) ==
    [kind |-> kind, range |-> <<>>, dimension |-> "ROWS",
     isFormatted |-> FALSE, parser |-> "none", id |-> 0, closure |-> closure]

ColumnsStep(range, parser, closure) ==
    [kind |-> "request", range |-> range, dimension |-> "COLUMNS",
     isFormatted |-> FALSE, parser |-> parser, id |-> 0, closure |-> closure]

\* The range of the results of an event for a year group: the five columns
\* from the event's startingCol, rows 9 to 28 for year 9 and 9 to 24 else.
ResultsRange(matchingEvent, yearGroup) ==
    LET startingCol == Get(matchingEvent, "startingCol")[2]
    IN  <<"y", ToString(yearGroup[2]), "_results!">>
           \o intToSpreadsheetColLetter(startingCol) \o <<"9", ":">>
           \o intToSpreadsheetColLetter(startingCol + 4)
           \o <<IF yearGroup = Num(9) THEN "28" ELSE "24">>

\* A third step of getEventResults that does not validate: it returns what
\* it found, with no range when no event matched.
EventLookupUnchecked(closure, values) ==
    LET matchingEvents == where(At(values, 1), "db", Get(closure, "eventDbName"))
    IN  Obj(<< <<"matchingEvent", At(matchingEvents, 1)>>,
               <<"matchingYearLetters",
                 Arr(where(At(values, 2), "year", Get(closure, "yearGroup")))>>,
               <<"spreadsheetRange",
                 IF Len(matchingEvents) = 0 THEN Undefined
                 ELSE Text(ResultsRange(matchingEvents[1], Get(closure, "yearGroup")))>> >>)

\* The third step of getEventResults(eventDbName, yearGroup), given the
\* events list and the forms list: it throws when no event has that db and
\* when the year group is none of 7, 8, 9, 10, and returns the event, the
\* forms of the year and the range of the results otherwise.
EventLookup(closure, values) ==
    LET eventDbName    == Get(closure, "eventDbName")
        yearGroup      == Get(closure, "yearGroup")
        matchingEvents == where(At(values, 1), "db", eventDbName)
        matchingEvent  == matchingEvents[1]
        matchingYearLetters == where(At(values, 2), "year", yearGroup)
        spreadsheetRange == ResultsRange(matchingEvent, yearGroup)
    IN  IF Len(matchingEvents) = 0 THEN <<"throw", "invalid eventDbName">>
        ELSE IF yearGroup \notin {Num(7), Num(8), Num(9), Num(10)}
        THEN <<"throw", "invalid yearGroup">>
        ELSE Obj(<< <<"matchingEvent", matchingEvent>>,
                    <<"matchingYearLetters", Arr(matchingYearLetters)>>,
                    <<"spreadsheetRange", Text(spreadsheetRange)>> >>)

\* The step function of the fourth step of getEventResults, given the value
\* of the third: newRequest for the range, with the parser of the results.
EventResultsStep(values) ==
    ColumnsStep(Get(At(values, 3), "spreadsheetRange")[2], "eventResultsParser",
                Get(At(values, 3), "matchingYearLetters"))

\* A third step of getFormResults that throws one and the same error for a
\* year without forms and for a form that is not of the year.
FormLookupOneError(closure, values) ==
    LET yearGroup     == Get(closure, "yearGroup")
        formLetters   == Get(closure, "formLetters")
        possibleForms == pluck(where(At(values, 2), "year", yearGroup), "form")
        position      == 2 * indexOf(possibleForms, formLetters) + 8 + 1
    IN  IF Len(possibleForms) = 0 \/ indexOf(possibleForms, formLetters) = -1
        THEN <<"throw", "invalid yearGroup">>
        ELSE Text(<<"y", ToString(yearGroup[2]), "_results!", "D", ToString(position),
                    ":", "BF", ToString(position + 1)>>)

\* The third step of getFormResults(yearGroup, formLetters), given the forms
\* list: it throws when no form has that year and when the form is not among
\* the forms of the year, and returns the range of the results otherwise.
FormLookup(closure, values) ==
    LET yearGroup     == Get(closure, "yearGroup")
        formLetters   == Get(closure, "formLetters")
        possibleForms == pluck(where(At(values, 2), "year", yearGroup), "form")
        position      == 2 * indexOf(possibleForms, formLetters) + 8 + 1
    IN  IF Len(possibleForms) = 0 THEN <<"throw", "invalid yearGroup">>
        ELSE IF indexOf(possibleForms, formLetters) = -1
        THEN <<"throw", "invalid formLetters">>
        ELSE Text(<<"y", ToString(yearGroup[2]), "_results!", "D", ToString(position),
                    ":", "BF", ToString(position + 1)>>)

\* The step function of the fourth step of getFormResults, given the events
\* list and the range: newRequest for the range, with the parser of the
\* results.
FormResultsStep(values) ==
    ColumnsStep(At(values, 3)[2], "formResultsParser", At(values, 1))

\* The sheet behind the queries: one event, one form in year 7, and five
\* columns of results (pos, pts of the one form, or of the one event).
EventsGrid ==
    Grid(<< <<Str("db"), Str("pretty"), Str("startingCol")>>,
            <<Str("a"), Str("A"), Num(4)>> >>)

FormsGrid == Grid(<< <<Str("year"), Str("form")>>, <<Num(7), Str("B")>> >>)

ResultsGrid == Grid([c \in 1..5 |-> <<Num(c), Num(10 * c)>>])

EventsList == twoDimensionParser(EventsGrid).value

FormsList == twoDimensionParser(FormsGrid).value

\* The queries a caller makes: getEventResults(eventDbName, yearGroup) and
\* getFormResults(yearGroup, formLetters), with parameters the lists hold
\* and parameters they do not hold.
EventQuery(eventDbName, yearGroup) ==
    Obj(<< <<"eventDbName", Str(eventDbName)>>, <<"yearGroup", Num(yearGroup)>> >>)

FormQuery(yearGroup, formLetters) ==
    Obj(<< <<"yearGroup", Num(yearGroup)>>, <<"formLetters", Str(formLetters)>> >>)

EventQueries ==
    <<EventQuery("a", 7), EventQuery("c", 7), EventQuery("a", 6), EventQuery("c", 6)>>

FormQueries == <<FormQuery(7, "B"), FormQuery(7, "Z"), FormQuery(8, "B")>>

\* The builders of getEventsList() and getFormsList(), and of the newRequest
\* of the fourth step of the queries that pass their third step.  A step
\* function makes its builder when it is called and the builder is not
\* changed after the step returns it, so that the builders are made ahead:
\* an even entry below is the builder newRequest returns.
ListBuilders ==
    << [base |-> 0, step |-> ValuesStep],
       [base |-> 1, step |-> RequestStep(EventsRange, "twoDimensionParser")],
       [base |-> 0, step |-> ValuesStep],
       [base |-> 3, step |-> RequestStep(FormsRange, "twoDimensionParser")],
       [base |-> 0, step |-> ValuesStep],
       [base |-> 5, step |-> EventResultsStep(
                                <<EventsList, FormsList,
                                  EventLookup(EventQueries[1], <<EventsList, FormsList>>)>>)],
       [base |-> 0, step |-> ValuesStep],
       [base |-> 7, step |-> FormResultsStep(
                                <<EventsList, FormsList,
                                  FormLookup(FormQueries[1], <<EventsList, FormsList>>)>>)] >>

EventsListBuilder == 2

FormsListBuilder == 4

\* newRequestBuilder().add(() => this.getEventsList())
\*    .add(() => this.getFormsList()).add(third step).add(fourth step),
\* made on top of the at builders made before.
QueryBuilders(at, lookup, results, closure) ==
    << [base |-> 0, step |-> ValuesStep],
       [base |-> at + 1, step |-> BuilderStep(EventsListBuilder)],
       [base |-> at + 2, step |-> BuilderStep(FormsListBuilder)],
       [base |-> at + 3, step |-> ClosureStep(lookup, closure)],
       [base |-> at + 4, step |-> ClosureStep(results, Undefined)] >>

RECURSIVE QueryProgramOf(_, _, _, _)
QueryProgramOf(program, lookup, results, queries) ==
    IF queries = <<>> THEN program
    ELSE QueryProgramOf(program \o QueryBuilders(Len(program), lookup, results,
                                                 Head(queries)),
                        lookup, results, Tail(queries))

QueryProgram ==
    QueryProgramOf(QueryProgramOf(ListBuilders, "eventLookup", "eventResults",
                                  EventQueries),
                   "formLookup", "formResults", FormQueries)

\* The pipelines the client builds, in this order: entry n makes builder n,
\* by the constructor (base 0) or by add(step) on builder base.
Program ==
    << [base |-> 0, step |-> ValuesStep],
       [base |-> 1, step |-> StepA],
       [base |-> 1, step |-> BuilderStep(2)],
       [base |-> 1, step |-> StepB],
       [base |-> 1, step |-> BuilderStep(3)],
       [base |-> 5, step |-> BuilderStep(4)],
       [base |-> 6, step |-> ValuesStep],
       [base |-> 1, step |-> StepNoParser],
       [base |-> 1, step |-> StepCell] >>

\* The builders the client sets alwaysCache on, and those it calls run on.
Flagged == {2, 3}

Roots == {2, 3, 7, 8, 9}

\* The URLs the client's requests go to, and the grids the backend serves.
UrlOf(step) == build(ApiKey, SheetId, step.range, step.dimension, step.isFormatted)

Urls == {UrlOf(StepA), UrlOf(StepB)}

GridFull == Grid(<< <<Str("x")>>, <<Str("1")>> >>)

GridShort == Grid(<< <<Str("x")>>, <<>> >>)

Grids == {GridFull, GridShort}

(***************************************************************************)
(* State                                                                   *)
(***************************************************************************)
VARIABLES
    builders,   \* the RequestBuilder instances: [items, alwaysCache], by id
    storage,    \* localStorage: requestKey -> stored text, for the keys set
    backend,    \* the grid the backend serves for each URL
    changes,    \* how often the backend data has changed
    runs,       \* the two latest run() calls, by slot
    last,       \* the slot of the run that ended last, 0 before any has
    requests    \* RequestCache instances constructed side by side

vars == <<builders, storage, backend, changes, runs, last, requests>>

\* A run is kept until the run after the next one is called.
RunIds == {1, 2}

\* A run() call that has not been made.  The log of a run tells what it did,
\* each event <<kind, f, i, ...>> being of step i of its activation f:
\*   <<"run", f, i, g, b, allowCache, alwaysCache>>  run(allowCache) is called
\*       on builder b, whose flag is alwaysCache: activation g begins
\*       (f = 0, i = 0 for the call of the client);
\*   <<"invoke", f, i, args, returned>>  item(values) is called with args;
\*   <<"get", f, i, key, saved>>, <<"live", f, i, key, saved>>  get() or live()
\*       is entered, saved being the text then stored under key (or null);
\*   <<"hit", f, i, key>>  cache() returns;  <<"axios", f, i, url>>  the request
\*       is sent;  <<"response", f, i, grid>>  it is answered;
\*   <<"setItem", f, i, key, text>>  text is stored under key;
\*   <<"push", f, i, value>>  values.push(value);
\*   <<"return", f, 0, value>>  the activation returns;
\*   <<"throw", f, i, error>>  the run is rejected.
IdleRun ==
    [status |-> "idle", root |-> 0, allowCache |-> TRUE, stack |-> <<>>,
     frames |-> 0, result |-> Undefined, error |-> "none", log |-> <<>>,
     changesAtStart |-> 0]

\* No RequestCache is awaited.
NoRequest ==
    [url |-> <<>>, requestKey |-> <<>>, parser |-> "none", closure |-> Undefined]

\* The activation of run() on builder b: the number i of items the loop has
\* passed, the values array, and what the loop is suspended on ("none", "axios" inside live(), "run" of a nested builder).
Frame(f, b, allowCache) ==
    [f |-> f, b |-> b, allowCache |-> allowCache, i |-> 0, values |-> <<>>,
     awaiting |-> "none", rc |-> NoRequest]

Init ==
    /\ builders = <<>>
    /\ storage = <<>>
    /\ backend = [u \in Urls |-> GridFull]
    /\ changes = 0
    /\ runs = [r \in RunIds |-> IdleRun]
    /\ last = 0
    /\ requests = <<>>

(***************************************************************************)
(* RequestBuilder: the constructor and add                                 *)
(***************************************************************************)
\* new RequestBuilder(apiKey, sheetId): no items, alwaysCache = false.
constructor == [items |-> <<>>, alwaysCache |-> FALSE]

\* An add that pushes the step on the items of the builder it is called on
\* and gives the new builder the same array.
addInPlace(heap, base, step) ==
    Append([heap EXCEPT ![base].items = Append(heap[base].items, step)],
           [constructor EXCEPT !.items = Append(heap[base].items, step)])

\* An add that hands the alwaysCache flag of the builder on to the new one.
addWithFlag(heap, base, step) ==
    Append(heap, [heap[base] EXCEPT !.items = Append(heap[base].items, step)])

\* The heap after add(step) on builder base: a new builder whose items are a
\* copy of base's items followed by step; base is left as it is.
add(heap, base, step) ==
    Append(heap, [constructor EXCEPT !.items = Append(heap[base].items, step)])

\* new RequestBuilder(apiKey, sheetId)
New ==
    /\ builders' = Append(builders, constructor)
    /\ UNCHANGED <<storage, backend, changes, runs, last, requests>>

\* add(step) is called on builder base.
Add(base, step) ==
    /\ base \in 1..Len(builders)
    /\ builders' = add(builders, base, step)
    /\ UNCHANGED <<storage, backend, changes, runs, last, requests>>

\* The client constructs its next builder.
ClientNew ==
    /\ Len(builders) < Len(Program)
    /\ Program[Len(builders) + 1].base = 0
    /\ New

\* The client makes its next builder by add.
ClientAdd ==
    /\ Len(builders) < Len(Program)
    /\ Program[Len(builders) + 1].base # 0
    /\ Add(Program[Len(builders) + 1].base, Program[Len(builders) + 1].step)

\* The steps a caller may add when any step may be added to any pipeline.
StepChoices ==
    {StepA, StepB, ValuesStep} \cup {BuilderStep(b) : b \in 1..Len(builders)}

\* Any caller constructs a builder.
BuildNew ==
    /\ Len(builders) < MaxBuilders
    /\ New

\* Any caller adds any step to any builder.
BuildAdd ==
    /\ Len(builders) < MaxBuilders
    /\ \E base \in 1..Len(builders), step \in StepChoices : Add(base, step)

\* request.alwaysCache = true
SetAlwaysCache(b) ==
    /\ b \in 1..Len(builders)
    /\ ~builders[b].alwaysCache
    /\ builders' = [builders EXCEPT ![b].alwaysCache = TRUE]
    /\ UNCHANGED <<storage, backend, changes, runs, last, requests>>

(***************************************************************************)
(* RequestCache: the cache                                                 *)
(***************************************************************************)
\* A getItem that, when nothing is stored under the key, answers with the
\* text stored under another key.
getCacheAnyKey(store, rc) ==
    IF rc.requestKey \in DOMAIN store THEN store[rc.requestKey]
    ELSE IF DOMAIN store # {} THEN store[CHOOSE k \in DOMAIN store : TRUE]
    ELSE Null

\* localStorage.getItem(this.requestKey): the stored text, or null.
getCache(store, rc) ==
    IF rc.requestKey \in DOMAIN store THEN store[rc.requestKey] ELSE Null

\* A saveCache that keeps the text already stored under the key.
saveCacheIfAbsent(store, rc, value) ==
    [k \in DOMAIN store \cup {rc.requestKey} |->
        IF k \in DOMAIN store THEN store[k] ELSE JsonStringify(value)]

\* A saveCache that also overwrites the entries of the other keys stored.
saveCacheAllKeys(store, rc, value) ==
    [k \in DOMAIN store \cup {rc.requestKey} |-> JsonStringify(value)]

\* A saveCache that clears the store before it sets the entry.
saveCacheCleared(store, rc, value) ==
    [k \in {rc.requestKey} |-> JsonStringify(value)]

\* localStorage.setItem(this.requestKey, JSON.stringify(value))
saveCache(store, rc, value) ==
    [k \in DOMAIN store \cup {rc.requestKey} |->
        IF k = rc.requestKey THEN JsonStringify(value) ELSE store[k]]

\* A cache() that returns undefined, instead of throwing, when nothing is
\* saved or the saved text does not parse.
cacheNoThrow(store, rc) ==
    LET savedValue == getCache(store, rc)
    IN  IF savedValue = Null \/ ~JsonParses(savedValue)
        THEN [ok |-> TRUE, value |-> Undefined, error |-> "none"]
        ELSE [ok |-> TRUE, value |-> JsonParse(savedValue), error |-> "none"]

\* cache(): throws when nothing is saved or the saved text does not parse.
cache(store, rc) ==
    LET savedValue == getCache(store, rc)
    IN  IF savedValue = Null
        THEN [ok |-> FALSE, value |-> Undefined, error |-> "not saved in cache"]
        ELSE IF ~JsonParses(savedValue)
        THEN [ok |-> FALSE, value |-> Undefined, error |-> "SyntaxError"]
        ELSE [ok |-> TRUE, value |-> JsonParse(savedValue), error |-> "none"]

(***************************************************************************)
(* RequestBuilder.run                                                      *)
(***************************************************************************)
\* The builder, made ahead, that newRequest returns for a step function.
Allocated(step) ==
    CHOOSE b \in 1..Len(builders) :
       builders[b].items = <<step>> /\ ~builders[b].alwaysCache

\* item(values): what the step function returns.
Item(step, values) ==
    CASE step.kind = "request" ->
           <<"request",
             Closing(setParser(NewRequestCache(ApiKey, SheetId, step.range,
                                               step.dimension, step.isFormatted),
                               step.parser),
                     step.closure)>>
      [] step.kind = "builder" -> <<"builder", step.id>>
      [] step.kind = "values" -> Arr(values)
      [] step.kind = "eventLookup" -> EventLookup(step.closure, values)
      [] step.kind = "eventResults" -> <<"builder", Allocated(EventResultsStep(values))>>
      [] step.kind = "formLookup" -> FormLookup(step.closure, values)
      [] step.kind = "formResults" -> <<"builder", Allocated(FormResultsStep(values))>>
      [] step.kind = "async" -> Promise(<<"builder", step.id>>)

\* value instanceof RequestCache, value instanceof RequestBuilder
IsRequestCache(value) == value[1] = "request"

IsRequestBuilder(value) == value[1] = "builder"

\* The step function threw instead of returning: item(values) is <<"throw",
\* error>>.
Throws(value) == value[1] = "throw"

\* A run that resolves every fetch step through get().
AlwaysGet(allowCache) == TRUE

\* A fetch step resolves through get() when allowCache, through live() else.
UsesGet(allowCache) == allowCache

\* A run that passes its own allowCache on, whatever the nested builder's flag.
SameAllowCache(allowCache, alwaysCache) == allowCache

\* A run that runs every nested builder with the cache allowed.
AllowCacheBelow(allowCache, alwaysCache) == TRUE

\* A run that runs a nested builder with the builder's flag alone.
OnlyAlwaysCache(allowCache, alwaysCache) == alwaysCache

\* The allowCache a nested builder is run with.
NestedAllowCache(allowCache, alwaysCache) == allowCache \/ alwaysCache

\* A run that returns values[0].
FirstValue(values) == At(values, 1)

\* A run that returns null when no step has pushed a value.
LastValueOrNull(values) == IF values = <<>> THEN Null ELSE values[Len(values)]

\* values[values.length - 1]
LastValue(values) == At(values, Len(values))

Top(r) == runs[r].stack[Len(runs[r].stack)]

\* The loop of the top activation of run r is about to take its next item.
AtItem(r) ==
    /\ runs[r].status = "running"
    /\ Top(r).awaiting = "none"
    /\ Top(r).i < Len(builders[Top(r).b].items)

NextItem(r) == builders[Top(r).b].items[Top(r).i + 1]

\* The value item(values) returns to the top activation of run r.
Returned(r) == Item(NextItem(r), Top(r).values)

\* Run record run with its top activation replaced by frame and events logged.
WithTop(run, frame, events) ==
    [run EXCEPT !.stack = [run.stack EXCEPT ![Len(run.stack)] = frame],
                !.log = run.log \o events]

\* The activation after values.push(value): the loop goes on to the next item.
Pushed(frame, value) ==
    [frame EXCEPT !.values = Append(frame.values, value), !.i = frame.i + 1,
                  !.awaiting = "none", !.rc = NoRequest]

\* run(allowCache) is called on builder b, once the earlier run of the
\* client has ended: run r begins with one activation,
\* in the slot of the older of the two runs kept; of the run before it, the
\* outcome is kept and the log of events is dropped.
Begin(r, b, allowCache) ==
    /\ \A q \in RunIds : runs[q].status # "running"
    /\ r = (IF last = 1 THEN 2 ELSE 1)
    /\ b \in 1..Len(builders)
    /\ runs' = [q \in RunIds |->
                  IF q = r
                  THEN [IdleRun EXCEPT !.status = "running", !.root = b,
                                       !.allowCache = allowCache,
                                       !.stack = <<Frame(1, b, allowCache)>>,
                                       !.frames = 1, !.changesAtStart = changes,
                                       !.log = << <<"run", 0, 0, 1, b, allowCache,
                                                    builders[b].alwaysCache>> >>]
                  ELSE [runs[q] EXCEPT !.log = <<>>]]
    /\ UNCHANGED <<builders, storage, backend, changes, last, requests>>

\* The client calls run once it has built its pipelines.
StartRun(r, b, allowCache) ==
    /\ Len(builders) = Len(Program)
    /\ Begin(r, b, allowCache)

\* The item returns a plain value: values.push(value).
StepValue(r) ==
    /\ AtItem(r)
    /\ ~IsRequestCache(Returned(r))
    /\ ~IsRequestBuilder(Returned(r))
    /\ ~Throws(Returned(r))
    /\ LET t == Top(r)
       IN  runs' = [runs EXCEPT ![r] =
                      WithTop(runs[r], Pushed(t, Returned(r)),
                              << <<"invoke", t.f, t.i + 1, t.values, Returned(r)>>,
                                 <<"push", t.f, t.i + 1, Returned(r)>> >>)]
    /\ UNCHANGED <<builders, storage, backend, changes, last, requests>>

\* A get() that, on a hit, gives what the parser of the fetch makes of the
\* data instead of the value stored.
StepCachedOwnParser(r) ==
    /\ AtItem(r)
    /\ IsRequestCache(Returned(r))
    /\ UsesGet(Top(r).allowCache)
    /\ cache(storage, Returned(r)[2]).ok
    /\ LET t  == Top(r)
           rc == Returned(r)[2]
           v  == parse(rc, backend[rc.url]).value
       IN  runs' = [runs EXCEPT ![r] =
                      WithTop(runs[r], Pushed(t, v),
                              << <<"invoke", t.f, t.i + 1, t.values, Returned(r)>>,
                                 <<"get", t.f, t.i + 1, rc.requestKey,
                                   getCache(storage, rc)>>,
                                 <<"hit", t.f, t.i + 1, rc.requestKey>>,
                                 <<"push", t.f, t.i + 1, v>> >>)]
    /\ UNCHANGED <<builders, storage, backend, changes, last, requests>>

\* The item returns a RequestCache, allowCache holds and cache() finds a text
\* that parses: get() resolves to the cached value, with no request.
StepCached(r) ==
    /\ AtItem(r)
    /\ IsRequestCache(Returned(r))
    /\ UsesGet(Top(r).allowCache)
    /\ cache(storage, Returned(r)[2]).ok
    /\ LET t  == Top(r)
           rc == Returned(r)[2]
           v  == cache(storage, rc).value
       IN  runs' = [runs EXCEPT ![r] =
                      WithTop(runs[r], Pushed(t, v),
                              << <<"invoke", t.f, t.i + 1, t.values, Returned(r)>>,
                                 <<"get", t.f, t.i + 1, rc.requestKey,
                                   getCache(storage, rc)>>,
                                 <<"hit", t.f, t.i + 1, rc.requestKey>>,
                                 <<"push", t.f, t.i + 1, v>> >>)]
    /\ UNCHANGED <<builders, storage, backend, changes, last, requests>>

\* A run that does not await live(): the request is sent, the pending promise
\* is pushed and the loop goes on.
StepFetchNoAwait(r) ==
    /\ AtItem(r)
    /\ IsRequestCache(Returned(r))
    /\ UsesGet(Top(r).allowCache) => ~cache(storage, Returned(r)[2]).ok
    /\ LET t   == Top(r)
           rc  == Returned(r)[2]
           via == IF UsesGet(t.allowCache) THEN "get" ELSE "live"
       IN  runs' = [runs EXCEPT ![r] =
                      WithTop(runs[r], Pushed(t, <<"promise", rc.requestKey>>),
                              << <<"invoke", t.f, t.i + 1, t.values, Returned(r)>>,
                                 <<via, t.f, t.i + 1, rc.requestKey,
                                   getCache(storage, rc)>>,
                                 <<"axios", t.f, t.i + 1, rc.url>>,
                                 <<"push", t.f, t.i + 1, <<"promise", rc.requestKey>> >> >>)]
    /\ UNCHANGED <<builders, storage, backend, changes, last, requests>>

\* The run record after the promise of run() is rejected with error, thrown
\* while events were logged in its top activation.
Rejected(run, events, error) ==
    LET t == run.stack[Len(run.stack)]
    IN  [run EXCEPT !.status = "failed", !.error = error, !.stack = <<>>,
                    !.log = run.log \o events \o << <<"throw", t.f, t.i + 1, error>> >>]

\* A live() that looks for the parser before it sends the request, and throws
\* at once when there is none.
StepFetchParserFirst(r) ==
    /\ AtItem(r)
    /\ IsRequestCache(Returned(r))
    /\ UsesGet(Top(r).allowCache) => ~cache(storage, Returned(r)[2]).ok
    /\ LET t   == Top(r)
           rc  == Returned(r)[2]
           via == IF UsesGet(t.allowCache) THEN "get" ELSE "live"
           entered == << <<"invoke", t.f, t.i + 1, t.values, Returned(r)>>,
                         <<via, t.f, t.i + 1, rc.requestKey, getCache(storage, rc)>> >>
       IN  IF rc.parser = "none"
           THEN /\ runs' = [runs EXCEPT ![r] =
                              Rejected(runs[r], entered, "parser not specified")]
                /\ last' = r
           ELSE /\ runs' = [runs EXCEPT ![r] =
                              WithTop(runs[r], [t EXCEPT !.awaiting = "axios", !.rc = rc],
                                      entered \o << <<"axios", t.f, t.i + 1, rc.url>> >>)]
                /\ last' = last
    /\ UNCHANGED <<builders, storage, backend, changes, requests>>

\* A get() that, when the other run has a request in flight for the same key,
\* sends none of its own and waits for that one.
StepFetchShared(r) ==
    /\ AtItem(r)
    /\ IsRequestCache(Returned(r))
    /\ UsesGet(Top(r).allowCache) => ~cache(storage, Returned(r)[2]).ok
    /\ LET t   == Top(r)
           rc  == Returned(r)[2]
           via == IF UsesGet(t.allowCache) THEN "get" ELSE "live"
           shared == \E q \in DOMAIN runs \ {r} :
                        /\ runs[q].status = "running"
                        /\ runs[q].stack[Len(runs[q].stack)].awaiting = "axios"
                        /\ runs[q].stack[Len(runs[q].stack)].rc.requestKey = rc.requestKey
       IN  runs' = [runs EXCEPT ![r] =
                      WithTop(runs[r], [t EXCEPT !.awaiting = "axios", !.rc = rc],
                              << <<"invoke", t.f, t.i + 1, t.values, Returned(r)>>,
                                 <<via, t.f, t.i + 1, rc.requestKey,
                                   getCache(storage, rc)>> >>
                              \o (IF shared THEN <<>>
                                  ELSE << <<"axios", t.f, t.i + 1, rc.url>> >>))]
    /\ UNCHANGED <<builders, storage, backend, changes, last, requests>>

\* The item returns a RequestCache and live() is entered, directly when
\* allowCache is false, or from get() when cache() throws: axios.get(url) is
\* issued and the run waits for it.
StepFetch(r) ==
    /\ AtItem(r)
    /\ IsRequestCache(Returned(r))
    /\ UsesGet(Top(r).allowCache) => ~cache(storage, Returned(r)[2]).ok
    /\ LET t   == Top(r)
           rc  == Returned(r)[2]
           via == IF UsesGet(t.allowCache) THEN "get" ELSE "live"
       IN  runs' = [runs EXCEPT ![r] =
                      WithTop(runs[r], [t EXCEPT !.awaiting = "axios", !.rc = rc],
                              << <<"invoke", t.f, t.i + 1, t.values, Returned(r)>>,
                                 <<via, t.f, t.i + 1, rc.requestKey,
                                   getCache(storage, rc)>>,
                                 <<"axios", t.f, t.i + 1, rc.url>> >>)]
    /\ UNCHANGED <<builders, storage, backend, changes, last, requests>>

\* The item returns a RequestBuilder: value.run(allowCache || value.alwaysCache)
\* is called and the loop waits for it.
StepBuilder(r) ==
    /\ AtItem(r)
    /\ IsRequestBuilder(Returned(r))
    /\ LET t     == Top(r)
           b     == Returned(r)[2]
           f     == runs[r].frames + 1
           allow == NestedAllowCache(t.allowCache, builders[b].alwaysCache)
           run   == WithTop(runs[r], [t EXCEPT !.awaiting = "run"],
                            << <<"invoke", t.f, t.i + 1, t.values, Returned(r)>>,
                               <<"run", t.f, t.i + 1, f, b, allow,
                                 builders[b].alwaysCache>> >>)
       IN  runs' = [runs EXCEPT ![r] =
                      [run EXCEPT !.stack = Append(run.stack, Frame(f, b, allow)),
                                  !.frames = f]]
    /\ UNCHANGED <<builders, storage, backend, changes, last, requests>>

\* A run that, when item(values) throws, pushes undefined for the step and
\* goes on with the next.
StepThrowSkip(r) ==
    /\ AtItem(r)
    /\ Throws(Returned(r))
    /\ LET t == Top(r)
       IN  runs' = [runs EXCEPT ![r] =
                      WithTop(runs[r], Pushed(t, Undefined),
                              << <<"invoke", t.f, t.i + 1, t.values, Returned(r)>>,
                                 <<"push", t.f, t.i + 1, Undefined>> >>)]
    /\ UNCHANGED <<builders, storage, backend, changes, last, requests>>

\* A run that, when item(values) throws, takes back what its fetches stored.
StepThrowRollback(r) ==
    /\ AtItem(r)
    /\ Throws(Returned(r))
    /\ LET t == Top(r)
           written == {runs[r].log[n][4] :
                         n \in {m \in 1..Len(runs[r].log) :
                                  runs[r].log[m][1] = "setItem"}}
       IN  /\ runs' = [runs EXCEPT ![r] =
                         Rejected(runs[r],
                                  << <<"invoke", t.f, t.i + 1, t.values, Returned(r)>> >>,
                                  Returned(r)[2])]
           /\ storage' = [k \in DOMAIN storage \ written |-> storage[k]]
    /\ last' = r
    /\ UNCHANGED <<builders, backend, changes, requests>>

\* item(values) throws: the error leaves the loop and every run() above it.
StepThrow(r) ==
    /\ AtItem(r)
    /\ Throws(Returned(r))
    /\ LET t == Top(r)
       IN  runs' = [runs EXCEPT ![r] =
                      Rejected(runs[r],
                               << <<"invoke", t.f, t.i + 1, t.values, Returned(r)>> >>,
                               Returned(r)[2])]
    /\ last' = r
    /\ UNCHANGED <<builders, storage, backend, changes, requests>>

\* A live() that saves what parse gave before it looks whether parse threw.
RespondSaveFirst(r) ==
    /\ runs[r].status = "running"
    /\ Top(r).awaiting = "axios"
    /\ LET t      == Top(r)
           rc     == t.rc
           parsed == parse(rc, backend[rc.url])
       IN  /\ storage' = saveCache(storage, rc, parsed.value)
           /\ IF parsed.ok
              THEN /\ runs' = [runs EXCEPT ![r] =
                                 WithTop(runs[r], Pushed(t, parsed.value),
                                         << <<"response", t.f, t.i + 1, backend[rc.url]>>,
                                            <<"setItem", t.f, t.i + 1, rc.requestKey,
                                              JsonStringify(parsed.value)>>,
                                            <<"push", t.f, t.i + 1, parsed.value>> >>)]
                   /\ last' = last
              ELSE /\ runs' = [runs EXCEPT ![r] =
                                 Rejected(runs[r],
                                          << <<"response", t.f, t.i + 1, backend[rc.url]>> >>,
                                          parsed.error)]
                   /\ last' = r
    /\ UNCHANGED <<builders, backend, changes, requests>>

\* A live() that resolves to the parsed value without saving it.
RespondNoSave(r) ==
    /\ runs[r].status = "running"
    /\ Top(r).awaiting = "axios"
    /\ LET t      == Top(r)
           rc     == t.rc
           parsed == parse(rc, backend[rc.url])
       IN  IF parsed.ok
           THEN /\ runs' = [runs EXCEPT ![r] =
                              WithTop(runs[r], Pushed(t, parsed.value),
                                      << <<"response", t.f, t.i + 1, backend[rc.url]>>,
                                         <<"push", t.f, t.i + 1, parsed.value>> >>)]
                /\ last' = last
           ELSE /\ runs' = [runs EXCEPT ![r] =
                              Rejected(runs[r],
                                       << <<"response", t.f, t.i + 1, backend[rc.url]>> >>,
                                       parsed.error)]
                /\ last' = r
    /\ UNCHANGED <<builders, storage, backend, changes, requests>>

\* axios.get resolves: live() parses the grid, saves the parsed value and
\* resolves to it; when parse throws, nothing is saved and the run fails.
Respond(r) ==
    /\ runs[r].status = "running"
    /\ Top(r).awaiting = "axios"
    /\ LET t      == Top(r)
           rc     == t.rc
           parsed == parse(rc, backend[rc.url])
       IN  IF parsed.ok
           THEN /\ storage' = saveCache(storage, rc, parsed.value)
                /\ runs' = [runs EXCEPT ![r] =
                              WithTop(runs[r], Pushed(t, parsed.value),
                                      << <<"response", t.f, t.i + 1, backend[rc.url]>>,
                                         <<"setItem", t.f, t.i + 1, rc.requestKey,
                                           JsonStringify(parsed.value)>>,
                                         <<"push", t.f, t.i + 1, parsed.value>> >>)]
                /\ last' = last
           ELSE /\ storage' = storage
                /\ runs' = [runs EXCEPT ![r] =
                              Rejected(runs[r],
                                       << <<"response", t.f, t.i + 1, backend[rc.url]>> >>,
                                       parsed.error)]
                /\ last' = r
    /\ UNCHANGED <<builders, backend, changes, requests>>

\* A live() that sends the request once more when axios.get rejects, and
\* gives up when the second attempt is rejected.
NetworkErrorRetry(r) ==
    /\ runs[r].status = "running"
    /\ Top(r).awaiting = "axios"
    /\ LET t == Top(r)
           sent == {n \in 1..Len(runs[r].log) :
                      /\ runs[r].log[n][1] = "axios"
                      /\ runs[r].log[n][2] = t.f
                      /\ runs[r].log[n][3] = t.i + 1}
       IN  IF Cardinality(sent) < 2
           THEN /\ runs' = [runs EXCEPT ![r] =
                              WithTop(runs[r], t,
                                      << <<"axios", t.f, t.i + 1, t.rc.url>> >>)]
                /\ last' = last
           ELSE /\ runs' = [runs EXCEPT ![r] = Rejected(runs[r], <<>>, "network error")]
                /\ last' = r
    /\ UNCHANGED <<builders, storage, backend, changes, requests>>

\* axios.get rejects: the error leaves live(), get() and every run() above it.
NetworkError(r) ==
    /\ runs[r].status = "running"
    /\ Top(r).awaiting = "axios"
    /\ runs' = [runs EXCEPT ![r] = Rejected(runs[r], <<>>, "network error")]
    /\ last' = r
    /\ UNCHANGED <<builders, storage, backend, changes, requests>>

\* The loop of the top activation is over: run() returns its last value, to
\* the caller for the outermost activation, to the waiting loop otherwise.
Return(r) ==
    /\ runs[r].status = "running"
    /\ Top(r).awaiting = "none"
    /\ Top(r).i = Len(builders[Top(r).b].items)
    /\ LET t     == Top(r)
           value == LastValue(t.values)
           n     == Len(runs[r].stack)
       IN  IF n = 1
           THEN runs' = [runs EXCEPT ![r] =
                           [runs[r] EXCEPT !.status = "done", !.result = value,
                                           !.stack = <<>>,
                                           !.log = @ \o << <<"return", t.f, 0, value>> >>]]
           ELSE LET up == runs[r].stack[n - 1]
                IN  runs' = [runs EXCEPT ![r] =
                               [runs[r] EXCEPT
                                  !.stack = Append(SubSeq(runs[r].stack, 1, n - 2),
                                                   Pushed(up, value)),
                                  !.log = @ \o << <<"return", t.f, 0, value>>,
                                                  <<"push", up.f, up.i + 1, value>> >>]]
    /\ last' = IF Len(runs[r].stack) = 1 THEN r ELSE last
    /\ UNCHANGED <<builders, storage, backend, changes, requests>>

\* The data behind url changes on the backend.
BackendChange(url) ==
    /\ changes < MaxBackendChanges
    /\ \E grid \in Grids \ {backend[url]} :
          backend' = [backend EXCEPT ![url] = grid]
    /\ changes' = changes + 1
    /\ UNCHANGED <<builders, storage, runs, last, requests>>

Next ==
    \/ ClientNew
    \/ ClientAdd
    \/ \E b \in Flagged : SetAlwaysCache(b)
    \/ \E r \in RunIds, b \in Roots, allowCache \in BOOLEAN :
          StartRun(r, b, allowCache)
    \/ \E r \in RunIds : StepValue(r)
    \/ \E r \in RunIds : StepCached(r)
    \/ \E r \in RunIds : StepFetch(r)
    \/ \E r \in RunIds : StepBuilder(r)
    \/ \E r \in RunIds : Respond(r)
    \/ \E r \in RunIds : NetworkError(r)
    \/ \E r \in RunIds : Return(r)
    \/ \E url \in Urls : BackendChange(url)

Spec == Init /\ [][Next]_vars

(***************************************************************************)
(* The domain queries: callers run the pipelines getEventResults and       *)
(* getFormResults return, one run after the other, over one cache.         *)
(***************************************************************************)
\* The heap after the first n entries of a program.
RECURSIVE Built(_, _)
Built(program, n) ==
    IF n = 0 THEN <<>>
    ELSE IF program[n].base = 0 THEN Append(Built(program, n - 1), constructor)
    ELSE add(Built(program, n - 1), program[n].base, program[n].step)

\* The builders the queries return to their callers.
QueryRoots ==
    {Len(ListBuilders) + 5 * q : q \in 1..(Len(EventQueries) + Len(FormQueries))}

\* The URLs of the queries and what the backend serves for them.
QueryUrls == {UrlOf(QueryProgram[b].step) : b \in {2, 4, 6, 8}}

QueryBackend ==
    [u \in QueryUrls |->
        IF u = UrlOf(QueryProgram[2].step) THEN EventsGrid
        ELSE IF u = UrlOf(QueryProgram[4].step) THEN FormsGrid
        ELSE ResultsGrid]

InitQuery ==
    /\ builders = [Built(QueryProgram, Len(QueryProgram))
                     EXCEPT ![EventsListBuilder].alwaysCache = TRUE]
    /\ storage = <<>>
    /\ backend = QueryBackend
    /\ changes = 0
    /\ runs = [r \in RunIds |-> IdleRun]
    /\ last = 0
    /\ requests = <<>>

\* A caller runs the pipeline a query returned.
QueryRun(r, b, allowCache) ==
    /\ b \in QueryRoots
    /\ Begin(r, b, allowCache)

NextQuery ==
    \/ \E r \in RunIds, b \in QueryRoots, allowCache \in BOOLEAN :
          QueryRun(r, b, allowCache)
    \/ \E r \in RunIds : StepValue(r)
    \/ \E r \in RunIds : StepThrow(r)
    \/ \E r \in RunIds : StepCached(r)
    \/ \E r \in RunIds : StepFetch(r)
    \/ \E r \in RunIds : StepBuilder(r)
    \/ \E r \in RunIds : Respond(r)
    \/ \E r \in RunIds : NetworkError(r)
    \/ \E r \in RunIds : Return(r)

SpecQuery == InitQuery /\ [][NextQuery]_vars

(***************************************************************************)
(* The records queries and the empty pipeline.  getYearGroupRecords and    *)
(* getRecordsSummaryStats are async methods: a step function that returns  *)
(* what they return hands run() a promise of a pipeline.                   *)
(***************************************************************************)
RecordsRange == <<"y", "7", "_records!A4", ":", "J15">>

\* Builder 1 is newRequestBuilder() with no step; 2 is the pipeline
\* getYearGroupRecords(7) resolves to; 3 has the step
\* () => getYearGroupRecords(7); 4 has a step that returns pipeline 2 itself;
\* 5 has the step of 3 and then a step that returns the values it is given.
RecordsProgram ==
    << [base |-> 0, step |-> ValuesStep],
       [base |-> 1, step |-> RequestStep(RecordsRange, "twoDimensionParser")],
       [base |-> 1, step |-> AsyncStep(2)],
       [base |-> 1, step |-> BuilderStep(2)],
       [base |-> 3, step |-> ValuesStep] >>

RecordsRoots == 1..Len(RecordsProgram)

InitRecords ==
    /\ builders = Built(RecordsProgram, Len(RecordsProgram))
    /\ storage = <<>>
    /\ backend = [u \in {UrlOf(RecordsProgram[2].step)} |-> GridFull]
    /\ changes = 0
    /\ runs = [r \in RunIds |-> IdleRun]
    /\ last = 0
    /\ requests = <<>>

\* A caller runs one of the pipelines.
RecordsRun(r, b, allowCache) ==
    /\ b \in RecordsRoots
    /\ Begin(r, b, allowCache)

NextRecords ==
    \/ \E r \in RunIds, b \in RecordsRoots, allowCache \in BOOLEAN :
          RecordsRun(r, b, allowCache)
    \/ \E r \in RunIds : StepValue(r)
    \/ \E r \in RunIds : StepCached(r)
    \/ \E r \in RunIds : StepFetch(r)
    \/ \E r \in RunIds : StepBuilder(r)
    \/ \E r \in RunIds : Respond(r)
    \/ \E r \in RunIds : NetworkError(r)
    \/ \E r \in RunIds : Return(r)

SpecRecords == InitRecords /\ [][NextRecords]_vars

\* Run r goes on by one step: its loop takes the next item, a request of
\* its own is settled, or an activation returns.
RunStep(r) ==
    \/ StepValue(r)
    \/ StepThrow(r)
    \/ StepCached(r)
    \/ StepFetch(r)
    \/ StepBuilder(r)
    \/ Respond(r)
    \/ NetworkError(r)
    \/ Return(r)

\* Every request sent is settled in the end, and a run that can go on does.
FairRecords == SpecRecords /\ \A r \in RunIds : WF_vars(RunStep(r))

(***************************************************************************)
(* Runs side by side: two callers run pipelines over one cache without     *)
(* waiting for each other.  A run gives way to the other wherever it       *)
(* awaits: between two steps, and while its request is in flight.          *)
(***************************************************************************)
\* The builders run side by side: the fetch of range a, the fetch of range b,
\* and the fetch of range a with another parser.
RaceRoots == {2, 4, 9}

InitRace ==
    /\ builders = Built(Program, Len(Program))
    /\ storage = <<>>
    /\ backend = [u \in Urls |-> GridFull]
    /\ changes = 0
    /\ runs = [r \in RunIds |-> IdleRun]
    /\ last = 0
    /\ requests = <<>>

\* run(allowCache) is called on builder b while the run in the other slot may
\* be under way.
RaceRun(r, b, allowCache) ==
    /\ runs[r].status # "running"
    /\ b \in RaceRoots
    /\ runs' = [runs EXCEPT ![r] =
                  [IdleRun EXCEPT !.status = "running", !.root = b,
                                  !.allowCache = allowCache,
                                  !.stack = <<Frame(1, b, allowCache)>>,
                                  !.frames = 1, !.changesAtStart = changes,
                                  !.log = << <<"run", 0, 0, 1, b, allowCache,
                                               builders[b].alwaysCache>> >>]]
    /\ UNCHANGED <<builders, storage, backend, changes, last, requests>>

NextRace ==
    \/ \E r \in RunIds, b \in RaceRoots, allowCache \in BOOLEAN :
          RaceRun(r, b, allowCache)
    \/ \E r \in RunIds : StepCached(r)
    \/ \E r \in RunIds : StepFetch(r)
    \/ \E r \in RunIds : Respond(r)
    \/ \E r \in RunIds : NetworkError(r)
    \/ \E r \in RunIds : Return(r)

SpecRace == InitRace /\ [][NextRace]_vars

\* Every request sent is settled in the end: axios.get resolves or rejects.
FairRace ==
    SpecRace /\ \A r \in RunIds : WF_vars(Respond(r) \/ NetworkError(r))

(***************************************************************************)
(* Parsing grids: twoDimensionParser applied to any grid of a few columns  *)
(* and rows, rows shorter and longer than the header row and header rows   *)
(* that repeat a name among them.                                          *)
(***************************************************************************)
MaxCols == 2

MaxRows == 2

\* The sequences of at most n elements of set.
SeqsUpTo(set, n) == UNION {[1..k -> set] : k \in 0..n}

HeaderRows == SeqsUpTo({Str("x"), Str("y")}, MaxCols)

DataRows == SeqsUpTo({Str("1"), Str("2")}, MaxCols + 1)

\* The grids with a header row and at most MaxRows rows of data.
ParserGrids ==
    {Grid(<<h>> \o d) : h \in HeaderRows, d \in SeqsUpTo(DataRows, MaxRows)}

\* RequestCache.twoDimensionParser(response) is called, once.
Parse(response) ==
    /\ requests = <<>>
    /\ requests' = << [response |-> response,
                       parsed   |-> twoDimensionParser(response)] >>
    /\ UNCHANGED <<builders, storage, backend, changes, runs, last>>

NextParse == \E response \in ParserGrids : Parse(response)

SpecParse == Init /\ [][NextParse]_vars

(***************************************************************************)
(* Converting column numbers: intToSpreadsheetColLetter applied to every   *)
(* column number up to the first ones of three letters.                    *)
(***************************************************************************)
MaxColumn == 750

\* GSheetsAPI.intToSpreadsheetColLetter(number) is called, once.
Convert(number) ==
    /\ requests = <<>>
    /\ requests' = << [number  |-> number,
                       letters |-> intToSpreadsheetColLetter(number)] >>
    /\ UNCHANGED <<builders, storage, backend, changes, runs, last>>

NextColumn == \E number \in 1..MaxColumn : Convert(number)

SpecColumn == Init /\ [][NextColumn]_vars

(***************************************************************************)
(* Building pipelines freely: the constructor, add and the alwaysCache     *)
(* flag, with any step added to any builder.                               *)
(***************************************************************************)
\* Any caller sets the alwaysCache field of any builder.
BuildFlag ==
    \E b \in 1..Len(builders) : SetAlwaysCache(b)

NextBuild ==
    \/ BuildNew
    \/ BuildAdd
    \/ BuildFlag

SpecBuild == Init /\ [][NextBuild]_vars

(***************************************************************************)
(* Constructing RequestCache instances side by side.  The credentials and  *)
(* the range are any strings; among those tried are a sheet id and an API  *)
(* key that spell the rest of a URL.                                       *)
(***************************************************************************)
UrlTail ==
    <<"/values/", "a", "?majorDimension=", "ROWS",
      "&valueRenderOption=", "UNFORMATTED_VALUE", "&key=", "k">>

ApiKeys == {<<"k">>, <<"k">> \o UrlTail}

SheetIds == {<<"s">>, <<"s">> \o UrlTail}

Ranges == {<<"a">>, <<"a", ":", "b">>, <<"a", "%", "3A", "b">>}

\* new RequestCache(apiKey, sheetId, range, dimension, isFormatted)
Construct(apiKey, sheetId, range, dimension, isFormatted) ==
    /\ Len(requests) < MaxRequests
    /\ requests' = Append(requests,
                          [apiKey |-> apiKey, sheetId |-> sheetId, range |-> range,
                           dimension |-> dimension, isFormatted |-> isFormatted,
                           rc |-> NewRequestCache(apiKey, sheetId, range,
                                                  dimension, isFormatted)])
    /\ UNCHANGED <<builders, storage, backend, changes, runs, last>>

NextKey ==
    \E apiKey \in ApiKeys, sheetId \in SheetIds, range \in Ranges,
       dimension \in Dimensions, isFormatted \in BOOLEAN :
          Construct(apiKey, sheetId, range, dimension, isFormatted)

SpecKey == Init /\ [][NextKey]_vars

(***************************************************************************)
(* Reading the log of a run                                                *)
(***************************************************************************)
\* The positions of the events of a kind in the log of run r.
Ev(r, kind) == {n \in 1..Len(runs[r].log) : runs[r].log[n][1] = kind}

\* The positions of the events of a kind of step i of activation f.
EvOf(r, kind, f, i) ==
    {n \in Ev(r, kind) : runs[r].log[n][2] = f /\ runs[r].log[n][3] = i}

Has(r, kind, f, i) == EvOf(r, kind, f, i) # {}

\* The first event of a kind of step i of activation f.
EvAt(r, kind, f, i) ==
    runs[r].log[CHOOSE n \in EvOf(r, kind, f, i) :
                   \A m \in EvOf(r, kind, f, i) : n <= m]

\* The "run" event that began activation g.
Began(r, g) ==
    runs[r].log[CHOOSE n \in Ev(r, "run") : runs[r].log[n][4] = g]

BuilderOf(r, g) == Began(r, g)[5]

AllowCacheOf(r, g) == Began(r, g)[6]

AlwaysCacheOf(r, g) == Began(r, g)[7]

ParentOf(r, g) == Began(r, g)[2]

\* The activations of run r.
Activations(r) == {runs[r].log[n][4] : n \in Ev(r, "run")}

\* The resolved output of step i of activation f, from what the step returned:
\* a plain value is its own output, a RequestCache resolves to the parsed
\* cached text on a hit and to the parsed response otherwise, a RequestBuilder
\* to the output of the last step of the activation begun for it.
RECURSIVE Output(_, _, _)
Output(r, f, i) ==
    IF ~Has(r, "invoke", f, i) THEN <<"missing">>
    ELSE LET returned == EvAt(r, "invoke", f, i)[5]
         IN  CASE IsRequestCache(returned) ->
                    IF Has(r, "hit", f, i) /\ Has(r, "get", f, i)
                    THEN JsonParse(EvAt(r, "get", f, i)[5])
                    ELSE IF Has(r, "response", f, i)
                    THEN parse(returned[2], EvAt(r, "response", f, i)[4]).value
                    ELSE <<"missing">>
               [] IsRequestBuilder(returned) ->
                    IF ~Has(r, "run", f, i) THEN <<"missing">>
                    ELSE LET g == EvAt(r, "run", f, i)[4]
                             k == Len(builders[returned[2]].items)
                         IN  IF k = 0 THEN Undefined ELSE Output(r, g, k)
               [] OTHER -> returned

(***************************************************************************)
(* Claims                                                                  *)
(***************************************************************************)
\* C1: run invokes step i of a pipeline, the i-th item of the builder in
\* declaration order, with exactly the resolved outputs of the steps before it,
\* in order, and a run that ends well returns the resolved output of the last
\* declared step: the parsed result of a fetch, the last-step result of a
\* nested pipeline, a plain value itself.
C1_RunThreadsOutputs ==
    \A r \in RunIds :
       /\ \A n \in Ev(r, "invoke") :
             LET e == runs[r].log[n]
                 f == e[2]
                 i == e[3]
             IN  /\ i \in 1..Len(builders[BuilderOf(r, f)].items)
                 /\ e[4] = [j \in 1..(i - 1) |-> Output(r, f, j)]
                 /\ e[5] = Item(builders[BuilderOf(r, f)].items[i], e[4])
                 /\ \A m \in Ev(r, "invoke") :
                       (m < n /\ runs[r].log[m][2] = f) => runs[r].log[m][3] < i
       /\ (runs[r].status = "done" /\ runs[r].log # <<>>) =>
             LET k == Len(builders[runs[r].root].items)
             IN  /\ \A i \in 1..k : Has(r, "invoke", 1, i)
                 /\ runs[r].result = IF k = 0 THEN Undefined ELSE Output(r, 1, k)

\* C1 witness: a run of the three-step pipeline has returned the plain value
\* of its last step, made of the outputs of its two nested pipelines, one
\* resolved from the cache and one from the network.
C1_Witness ==
    \E r \in RunIds :
       /\ runs[r].status = "done"
       /\ runs[r].root = 7
       /\ runs[r].result[1] = "arr"
       /\ Len(runs[r].result[2]) = 2
       /\ Ev(r, "hit") # {}
       /\ Ev(r, "response") # {}

\* The step of the event at position n of the log of run r is a fetch step.
IsFetchCall(r, n) ==
    runs[r].log[n][1] = "invoke" /\ IsRequestCache(runs[r].log[n][5])

\* Step i of activation f was resolved by live(): a request and no cache read.
ResolvedLive(r, f, i) ==
    /\ Has(r, "live", f, i)
    /\ Has(r, "axios", f, i)
    /\ ~Has(r, "get", f, i)
    /\ ~Has(r, "hit", f, i)

\* Step i of activation f was resolved by get(): from the cache when a text
\* that parses is stored under the key, by a request otherwise.
ResolvedGet(r, f, i) ==
    /\ Has(r, "get", f, i)
    /\ ~Has(r, "live", f, i)
    /\ LET saved == EvAt(r, "get", f, i)[5]
       IN  IF saved # Null /\ JsonParses(saved)
           THEN Has(r, "hit", f, i) /\ ~Has(r, "axios", f, i)
           ELSE Has(r, "axios", f, i) /\ ~Has(r, "hit", f, i)

\* C2: within one run the steps go strictly one after the other: when the
\* function of a step is invoked, or a cache read or request of the step
\* begins, the step before it in the same activation has been pushed, every
\* request sent earlier in the run has been answered and every nested run
\* begun for the step before has returned.
C2_StepsSequential ==
    \A r \in RunIds :
       \A n \in 1..Len(runs[r].log) :
          LET e == runs[r].log[n]
          IN  e[1] \in {"invoke", "get", "live", "hit", "axios"} =>
                 /\ e[3] > 1 => \E m \in EvOf(r, "push", e[2], e[3] - 1) : m < n
                 /\ \A m \in Ev(r, "axios") :
                       m < n =>
                          \E k \in Ev(r, "response") :
                             /\ m < k /\ k < n
                             /\ runs[r].log[k][2] = runs[r].log[m][2]
                             /\ runs[r].log[k][3] = runs[r].log[m][3]
                 /\ e[3] > 1 =>
                       \A m \in EvOf(r, "run", e[2], e[3] - 1) :
                          \E k \in Ev(r, "return") :
                             m < k /\ k < n /\ runs[r].log[k][2] = runs[r].log[m][4]

\* C2 witness: the second step of the outermost activation has been invoked
\* after a request of the first step's nested run was sent and answered.
C2_Witness ==
    \E r \in RunIds :
       /\ Has(r, "invoke", 1, 2)
       /\ \E m \in Ev(r, "response") :
             m < CHOOSE n \in EvOf(r, "invoke", 1, 2) : TRUE

\* C3: a RequestCache returned by a step is resolved through get() when the
\* activation runs with allowCache = true (the cache is read first, a request
\* is made only on a miss) and through live() when it runs with
\* allowCache = false (a request, no cache read); either way the parsed
\* result is what is pushed on the values.
C3_GetOrLive ==
    \A r \in RunIds :
       \A n \in Ev(r, "invoke") :
          IsFetchCall(r, n) =>
             LET f == runs[r].log[n][2]
                 i == runs[r].log[n][3]
             IN  /\ n < Len(runs[r].log)
                 /\ runs[r].log[n + 1][1] = IF AllowCacheOf(r, f) THEN "get" ELSE "live"
                 /\ IF AllowCacheOf(r, f) THEN ResolvedGet(r, f, i)
                                          ELSE ResolvedLive(r, f, i)
                 /\ \A m \in EvOf(r, "push", f, i) :
                       runs[r].log[m][4] = Output(r, f, i)

\* C3 witness: one finished run has resolved a fetch through get() and pushed
\* the cached value, and another fetch through live() and pushed the parsed
\* response.
C3_Witness ==
    \E r \in RunIds :
       /\ runs[r].status = "done"
       /\ \E n \in Ev(r, "hit") :
             Has(r, "push", runs[r].log[n][2], runs[r].log[n][3])
       /\ \E n \in Ev(r, "live") :
             Has(r, "push", runs[r].log[n][2], runs[r].log[n][3])

\* No builder run so far in run r had alwaysCache set when it was run.
NoneAlwaysCache(r) == \A n \in Ev(r, "run") : ~runs[r].log[n][7]

\* C4: force-refresh.  In a run with allowCache = false in which no pipeline
\* (the one run, or one nested at any depth) has alwaysCache = true, every
\* fetch step makes a request, whatever is stored under its key, and the
\* answer's parsed result is stored under the key in place of what was there.
C4_ForceRefresh ==
    \A r \in RunIds :
       (runs[r].log # <<>> /\ ~runs[r].allowCache /\ NoneAlwaysCache(r)) =>
          /\ \A n \in Ev(r, "invoke") :
                IsFetchCall(r, n) =>
                   ResolvedLive(r, runs[r].log[n][2], runs[r].log[n][3])
          /\ \A n \in Ev(r, "response") :
                LET f      == runs[r].log[n][2]
                    i      == runs[r].log[n][3]
                    rc     == EvAt(r, "invoke", f, i)[5][2]
                    parsed == parse(rc, runs[r].log[n][4])
                IN  parsed.ok =>
                       /\ Has(r, "setItem", f, i)
                       /\ EvAt(r, "setItem", f, i)[5] = JsonStringify(parsed.value)
          /\ \A n \in Ev(r, "setItem") :
                (\A m \in Ev(r, "setItem") :
                    runs[r].log[m][4] = runs[r].log[n][4] => m <= n) =>
                   getCache(storage, [requestKey |-> runs[r].log[n][4]])
                      = runs[r].log[n][5]

\* C4 witness: in such a run, of a pipeline with nested pipelines, a fetch
\* whose key held a text that parses made a request and stored another text.
C4_Witness ==
    \E r \in RunIds :
       /\ ~runs[r].allowCache
       /\ NoneAlwaysCache(r)
       /\ runs[r].root = 7
       /\ \E n \in Ev(r, "setItem") :
             LET f == runs[r].log[n][2]
                 i == runs[r].log[n][3]
             IN  /\ Has(r, "live", f, i)
                 /\ EvAt(r, "live", f, i)[5] # Null
                 /\ JsonParses(EvAt(r, "live", f, i)[5])
                 /\ EvAt(r, "live", f, i)[5] # runs[r].log[n][5]
                 /\ storage[runs[r].log[n][4]] = runs[r].log[n][5]

\* C5: the alwaysCache override.  A nested pipeline whose alwaysCache is true,
\* returned by a step of a pipeline that runs with allowCache = false, resolves
\* each of its own fetch steps through get(): from the cache, with no request,
\* when an entry is stored under the key (a text that deserializes; get()
\* treats any other text as a miss).
C5_AlwaysCacheOverride ==
    \A r \in RunIds :
       \A n \in Ev(r, "run") :
          LET e == runs[r].log[n]
          IN  (e[2] # 0 /\ ~AllowCacheOf(r, e[2]) /\ e[7]) =>
                 \A m \in Ev(r, "invoke") :
                    (IsFetchCall(r, m) /\ runs[r].log[m][2] = e[4]) =>
                       LET j == runs[r].log[m][3]
                       IN  /\ Has(r, "get", e[4], j)
                           /\ ~Has(r, "live", e[4], j)
                           /\ (/\ EvAt(r, "get", e[4], j)[5] # Null
                               /\ JsonParses(EvAt(r, "get", e[4], j)[5])) =>
                                 Has(r, "hit", e[4], j) /\ ~Has(r, "axios", e[4], j)

\* C5 witness: a pipeline with alwaysCache set, nested in a run with
\* allowCache = false, has resolved its fetch from the cache and returned.
C5_Witness ==
    \E r \in RunIds :
       /\ ~runs[r].allowCache
       /\ \E n \in Ev(r, "run") :
             LET e == runs[r].log[n]
             IN  /\ e[2] # 0 /\ ~AllowCacheOf(r, e[2]) /\ e[7]
                 /\ Has(r, "hit", e[4], 1)
                 /\ ~Has(r, "axios", e[4], 1)
                 /\ \E k \in Ev(r, "return") : runs[r].log[k][2] = e[4]

\* C6: a pipeline whose alwaysCache is true uses the cache for its own fetch
\* steps also when run(false) is called on it directly: with a text stored
\* under the key, no request is made for a fetch step of the pipeline run.
C6_RootAlwaysCache ==
    \A r \in RunIds :
       (runs[r].log # <<>> /\ ~runs[r].allowCache /\ AlwaysCacheOf(r, 1)) =>
          \A n \in Ev(r, "invoke") :
             (IsFetchCall(r, n) /\ runs[r].log[n][2] = 1) =>
                LET i == runs[r].log[n][3]
                IN  \A m \in EvOf(r, "live", 1, i) \cup EvOf(r, "get", 1, i) :
                       runs[r].log[m][5] # Null => ~Has(r, "axios", 1, i)

\* An activation of run r is of a builder that had alwaysCache set when a step
\* returned it, or is nested, at some depth, in such an activation.  The
\* activation of the pipeline run() was called on is neither.
RECURSIVE MarkedAbove(_, _)
MarkedAbove(r, g) ==
    /\ ParentOf(r, g) # 0
    /\ AlwaysCacheOf(r, g) \/ MarkedAbove(r, ParentOf(r, g))

\* C7 as claimed: under a run with allowCache = false, every pipeline of the
\* run that is not itself marked alwaysCache resolves its fetch steps live.
C7_OnlyMarkedPipeline ==
    \A r \in RunIds :
       (runs[r].log # <<>> /\ ~runs[r].allowCache) =>
          \A n \in Ev(r, "invoke") :
             (IsFetchCall(r, n) /\ ~AlwaysCacheOf(r, runs[r].log[n][2])) =>
                ResolvedLive(r, runs[r].log[n][2], runs[r].log[n][3])

\* C7 amended: under a run with allowCache = false, a pipeline resolves its
\* fetch steps live when it is neither a marked pipeline returned by a step
\* nor nested, at any depth, inside one (so the siblings and the ancestors of
\* a marked pipeline do); a pipeline nested inside a marked one resolves them
\* through get(), marked or not.
C7_MarkedSubtree ==
    \A r \in RunIds :
       (runs[r].log # <<>> /\ ~runs[r].allowCache) =>
          \A n \in Ev(r, "invoke") :
             IsFetchCall(r, n) =>
                LET f == runs[r].log[n][2]
                    i == runs[r].log[n][3]
                IN  IF MarkedAbove(r, f) THEN ResolvedGet(r, f, i)
                                         ELSE ResolvedLive(r, f, i)

\* C7 witness: in a run with allowCache = false, an unmarked pipeline nested
\* in a marked one has resolved its fetch from the cache, and an unmarked
\* sibling of the marked pipeline has resolved its fetch live.
C7_Witness ==
    \E r \in RunIds :
       /\ ~runs[r].allowCache
       /\ \E g, h \in Activations(r) :
             /\ ~AlwaysCacheOf(r, g) /\ MarkedAbove(r, g)
             /\ Has(r, "hit", g, 1)
             /\ ParentOf(r, h) # 0
             /\ ~AlwaysCacheOf(r, h) /\ ~MarkedAbove(r, h)
             /\ ResolvedLive(r, h, 1) /\ Has(r, "push", h, 1)

\* C8: add(step) on a builder makes a new builder whose items are the items of
\* the builder followed by step, and no step of the run of adds, constructor
\* calls and flag settings changes the items of a builder that exists: two
\* builders made by add on the same builder do not see each other's step.
C8_AddCopies ==
    [][/\ \A b \in 1..Len(builders) :
             /\ b \in 1..Len(builders')
             /\ builders'[b].items = builders[b].items
       /\ \A base \in 1..Len(builders), step \in StepChoices :
             Add(base, step) =>
                /\ Len(builders') = Len(builders) + 1
                /\ builders'[Len(builders')].items
                      = Append(builders[base].items, step)]_vars

\* C8 witness: two builders have been made by add on the same builder, which
\* itself has a step, each with its own step after that builder's items.
C8_Witness ==
    \E a, c, d \in 1..Len(builders) :
       /\ builders[a].items = <<StepA>>
       /\ builders[c].items = <<StepA, StepB>>
       /\ builders[d].items = <<StepA, ValuesStep>>
       /\ c < d

\* C9: when run(true) has been called twice in succession on the same builder
\* and both calls have returned, the backend data being the same from the
\* call of the first to the return of the second (the storage is written by
\* the runs alone), the second call returns the value the first returned and
\* sends no request.
C9_Idempotent ==
    \A r \in RunIds :
       LET q == IF r = 1 THEN 2 ELSE 1
       IN  (/\ last = r
            /\ runs[r].status = "done" /\ runs[q].status = "done"
            /\ runs[r].root = runs[q].root
            /\ runs[r].allowCache /\ runs[q].allowCache
            /\ changes = runs[q].changesAtStart)
              => /\ runs[r].result = runs[q].result
                 /\ Ev(r, "axios") = {}

\* The parameters in which two constructed instances differ.
Differing(p, q) ==
    {x \in {"apiKey", "sheetId", "range", "dimension", "isFormatted"} :
        CASE x = "apiKey" -> p.apiKey # q.apiKey
          [] x = "sheetId" -> p.sheetId # q.sheetId
          [] x = "range" -> p.range # q.range
          [] x = "dimension" -> p.dimension # q.dimension
          [] x = "isFormatted" -> p.isFormatted # q.isFormatted}

\* C10 as claimed: two RequestCache instances constructed with the same
\* parameters have the same requestKey, and two instances that differ in any
\* of the parameters have different requestKeys.
C10_KeyInjective ==
    \A m, n \in 1..Len(requests) :
       (Differing(requests[m], requests[n]) = {})
          <=> (requests[m].rc.requestKey = requests[n].rc.requestKey)

\* C10 amended: two RequestCache instances constructed with the same
\* parameters have the same URL and requestKey, and two instances that differ
\* in exactly one parameter have different URLs and different requestKeys.
C10_KeyDeterminism ==
    \A m, n \in 1..Len(requests) :
       /\ Differing(requests[m], requests[n]) = {} =>
             /\ requests[m].rc.url = requests[n].rc.url
             /\ requests[m].rc.requestKey = requests[n].rc.requestKey
       /\ Cardinality(Differing(requests[m], requests[n])) = 1 =>
             /\ requests[m].rc.url # requests[n].rc.url
             /\ requests[m].rc.requestKey # requests[n].rc.requestKey

\* C10 witness: two instances have been constructed that differ in the range
\* alone, one range being the encoded form of the other, and their keys
\* differ; a third pair has the same parameters and the same key.
C10_Witness ==
    \E m, n \in 1..Len(requests) :
       /\ Differing(requests[m], requests[n]) = {"range"}
       /\ requests[m].range = <<"a", ":", "b">>
       /\ requests[n].range = <<"a", "%", "3A", "b">>
       /\ requests[m].rc.requestKey # requests[n].rc.requestKey

\* The RequestCache the fetch step at position n of the log of run r returned.
FetchOf(r, n) == runs[r].log[n][5][2]

\* C11: a fetch step whose RequestCache has no parser never resolves to a
\* value, whether or not a text is stored under its key: nothing is pushed for
\* it, and once the run is over it has failed at that step with "parser not
\* specified" (or with the error of the network).
C11_MissingParserFails ==
    \A r \in RunIds :
       \A n \in Ev(r, "invoke") :
          (IsFetchCall(r, n) /\ FetchOf(r, n).parser = "none") =>
             LET f == runs[r].log[n][2]
                 i == runs[r].log[n][3]
             IN  /\ ~Has(r, "push", f, i)
                 /\ runs[r].status # "done"
                 /\ runs[r].status = "failed" =>
                       /\ Has(r, "throw", f, i)
                       /\ runs[r].error \in {"parser not specified", "network error"}
\* The events of step i of activation f of run r, in the order logged.
StepEvents(r, f, i) ==
    LET Of(e) == e[2] = f /\ e[3] = i
    IN  SelectSeq(runs[r].log, Of)

\* The kinds of the events of a sequence of events.
Kinds(events) == [n \in 1..Len(events) |-> events[n][1]]

\* C12: live() on a RequestCache with a parser sends exactly one request; when
\* the response arrives and parses, the parser's result for the grid of the
\* response is stored under the key of the fetch, in place of what was stored
\* there, and is the value the step resolves to; the cache is not read.
C12_Live ==
    \A r \in RunIds :
       \A n \in Ev(r, "live") :
          LET f  == runs[r].log[n][2]
              i  == runs[r].log[n][3]
              rc == EvAt(r, "invoke", f, i)[5][2]
              ev == StepEvents(r, f, i)
          IN  rc.parser # "none" =>
                 /\ Cardinality(EvOf(r, "axios", f, i)) = 1
                 /\ EvAt(r, "axios", f, i)[4] = rc.url
                 /\ ~Has(r, "hit", f, i)
                 /\ Has(r, "response", f, i) =>
                       LET parsed == parse(rc, EvAt(r, "response", f, i)[4])
                       IN  parsed.ok =>
                              /\ Kinds(ev) = <<"invoke", "live", "axios", "response",
                                               "setItem", "push">>
                              /\ ev[5][4] = rc.requestKey
                              /\ ev[5][5] = JsonStringify(parsed.value)
                              /\ ev[6][4] = parsed.value
                              /\ (\A m \in Ev(r, "setItem") :
                                     runs[r].log[m][4] = rc.requestKey
                                        => m <= CHOOSE k \in EvOf(r, "setItem", f, i) : TRUE)
                                    => getCache(storage, rc) = JsonStringify(parsed.value)

\* C12 witness: a pipeline run directly with allowCache = false has resolved
\* its fetch by live() while another text was stored under the key, and the
\* text of the new parsed value is now stored there.
C12_Witness ==
    \E r \in RunIds :
       /\ runs[r].root = 2
       /\ runs[r].status = "done"
       /\ Has(r, "live", 1, 1) /\ Has(r, "setItem", 1, 1)
       /\ EvAt(r, "live", 1, 1)[5] # Null
       /\ EvAt(r, "live", 1, 1)[5] # EvAt(r, "setItem", 1, 1)[5]
       /\ storage[EvAt(r, "setItem", 1, 1)[4]] = JsonStringify(runs[r].result)
\* C13: get() reads the text stored under the key of the fetch.  When a text
\* is stored and parses, the step resolves to the value the text denotes, with
\* no request, no parser call and no write; when none is stored, or the stored
\* text does not parse, one request is sent and, once it is answered and the
\* parser accepts the grid, the parsed value is stored and resolved to, as by
\* live().
C13_Get ==
    \A r \in RunIds :
       \A n \in Ev(r, "get") :
          LET f     == runs[r].log[n][2]
              i     == runs[r].log[n][3]
              rc    == EvAt(r, "invoke", f, i)[5][2]
              saved == runs[r].log[n][5]
              ev    == StepEvents(r, f, i)
          IN  /\ runs[r].log[n][4] = rc.requestKey
              /\ IF saved # Null /\ JsonParses(saved)
                 THEN /\ Kinds(ev) = <<"invoke", "get", "hit", "push">>
                      /\ ev[4][4] = JsonParse(saved)
                 ELSE /\ Len(ev) >= 3
                      /\ Kinds(SubSeq(ev, 1, 3)) = <<"invoke", "get", "axios">>
                      /\ ev[3][4] = rc.url
                      /\ Cardinality(EvOf(r, "axios", f, i)) = 1
                      /\ Has(r, "response", f, i) =>
                            LET parsed == parse(rc, EvAt(r, "response", f, i)[4])
                            IN  IF parsed.ok
                                THEN /\ Kinds(ev) = <<"invoke", "get", "axios",
                                                      "response", "setItem", "push">>
                                     /\ ev[5][4] = rc.requestKey
                                     /\ ev[5][5] = JsonStringify(parsed.value)
                                     /\ ev[6][4] = parsed.value
                                ELSE Kinds(ev) = <<"invoke", "get", "axios",
                                                   "response", "throw">>

\* C13 witness: a run has resolved a fetch through get() on a stored text that
\* does not parse, by a request whose parsed response it stored, and an
\* earlier step of the run was a hit.
C13_Witness ==
    \E r \in RunIds :
       /\ runs[r].status = "done"
       /\ \E n \in Ev(r, "get") :
             /\ runs[r].log[n][5] # Null
             /\ ~JsonParses(runs[r].log[n][5])
             /\ Has(r, "setItem", runs[r].log[n][2], runs[r].log[n][3])
       /\ Ev(r, "hit") # {}
\* C14: when a fetch that sent a request fails, by an error of the network or
\* by parse throwing on the response, the text stored under its key when the
\* fetch began (or the absence of one) is what is stored under the key after
\* the failure, and the step has written nothing.
C14_FailedLiveKeepsCache ==
    \A r \in RunIds :
       \A n \in Ev(r, "throw") :
          LET f == runs[r].log[n][2]
              i == runs[r].log[n][3]
          IN  Has(r, "axios", f, i) =>
                 LET rc    == EvAt(r, "invoke", f, i)[5][2]
                     via   == IF Has(r, "get", f, i) THEN "get" ELSE "live"
                     saved == EvAt(r, via, f, i)[5]
                 IN  /\ runs[r].status = "failed"
                     /\ ~Has(r, "setItem", f, i)
                     /\ getCache(storage, rc) = saved

\* C14 witness: a live fetch failed on the network, and another on parse
\* throwing after the response, each with a text stored under its key that is
\* still there.
C14_Witness ==
    /\ \E r \in RunIds :
          /\ runs[r].status = "failed" /\ runs[r].error = "parser not specified"
          /\ Ev(r, "response") # {}
          /\ \E n \in Ev(r, "live") :
                /\ runs[r].log[n][5] # Null
                /\ storage[runs[r].log[n][4]] = runs[r].log[n][5]
    /\ \E r \in RunIds : runs[r].status = "failed" /\ runs[r].error = "network error"
\* C15: when the request of a fetch is rejected by the network, the fetch has
\* sent that one request and no other, nothing is pushed for the step, whether
\* it was entered through live() or through get(), and the run ends there,
\* failed with the error of the network and without a result.
C15_NetworkErrorPropagates ==
    \A r \in RunIds :
       \A n \in Ev(r, "throw") :
          LET f == runs[r].log[n][2]
              i == runs[r].log[n][3]
          IN  runs[r].log[n][4] = "network error" =>
                 /\ Cardinality(EvOf(r, "axios", f, i)) = 1
                 /\ ~Has(r, "response", f, i)
                 /\ ~Has(r, "push", f, i)
                 /\ n = Len(runs[r].log)
                 /\ runs[r].status = "failed"
                 /\ runs[r].error = "network error"
                 /\ runs[r].result = Undefined
                 /\ runs[r].stack = <<>>

\* C15 witness: the request of a fetch entered through get(), in a nested
\* pipeline, was rejected and the run of the outer pipeline has failed.
C15_Witness ==
    \E r \in RunIds :
       /\ runs[r].status = "failed"
       /\ runs[r].error = "network error"
       /\ \E n \in Ev(r, "throw") :
             /\ runs[r].log[n][2] > 1
             /\ Has(r, "get", runs[r].log[n][2], runs[r].log[n][3])
\* C17: a cache hit is exact-key only.  In every step of the program, a text
\* is written under key K only by the fetch being answered, whose key is K,
\* and a fetch resolved by a hit has key K stored and resolves to the value
\* the text under K denotes: a value stored by a fetch with key K.
C17_ExactKey ==
    [][\A r \in RunIds :
          runs[r].status = "running" =>
             /\ \A k \in DOMAIN storage' :
                   (k \notin DOMAIN storage \/ storage'[k] # storage[k])
                      => /\ Top(r).awaiting = "axios"
                         /\ Top(r).rc.requestKey = k
                         /\ md5(Top(r).rc.url) = k
             /\ \A n \in (Len(runs[r].log) + 1)..Len(runs'[r].log) :
                   runs'[r].log[n][1] = "hit" =>
                      LET key == Returned(r)[2].requestKey
                      IN  /\ runs'[r].log[n][4] = key
                          /\ key \in DOMAIN storage
                          /\ runs'[r].log[n + 1][1] = "push"
                          /\ runs'[r].log[n + 1][4] = JsonParse(storage[key])]_vars

\* C17 witness: with different texts stored under the keys of two fetches, a
\* run has resolved the one by a hit to the value stored under its own key.
C17_Witness ==
    \E r \in RunIds :
       /\ Cardinality(DOMAIN storage) = 2
       /\ \E j, k \in DOMAIN storage : storage[j] # storage[k]
       /\ \E n \in Ev(r, "hit") :
             /\ runs[r].log[n + 1][1] = "push"
             /\ runs[r].log[n + 1][4] = JsonParse(storage[runs[r].log[n][4]])
             /\ \E k \in DOMAIN storage :
                   JsonParses(storage[k]) /\ JsonParse(storage[k]) # runs[r].log[n + 1][4]
\* C16: when a step fails, its step function throwing or its fetch failing,
\* at any nesting depth, the run fails there and then with that error: the
\* throw is the one throw of the run and its last event, no later step of the
\* failing activation or of an activation above it has been invoked, no
\* activation has returned a value after it and the run has no result.  A
\* step function that throws is followed by nothing but the throw.
C16_FailFast ==
    \A r \in RunIds :
       /\ \A n \in Ev(r, "throw") :
             LET f == runs[r].log[n][2]
                 i == runs[r].log[n][3]
             IN  /\ n = Len(runs[r].log)
                 /\ Cardinality(Ev(r, "throw")) = 1
                 /\ runs[r].status = "failed"
                 /\ runs[r].error = runs[r].log[n][4]
                 /\ runs[r].result = Undefined
                 /\ runs[r].stack = <<>>
                 /\ ~Has(r, "push", f, i)
                 /\ \A m \in Ev(r, "invoke") :
                       LET g == runs[r].log[m][2]
                       IN  /\ g = f => runs[r].log[m][3] <= i
                           /\ \A e \in Ev(r, "run") :
                                 (runs[r].log[e][2] = g /\ runs[r].log[e][4] = f)
                                    => runs[r].log[m][3] <= runs[r].log[e][3]
       /\ \A n \in Ev(r, "invoke") :
             Throws(runs[r].log[n][5]) =>
                /\ n + 1 = Len(runs[r].log)
                /\ runs[r].log[n + 1]
                      = <<"throw", runs[r].log[n][2], runs[r].log[n][3],
                          runs[r].log[n][5][2]>>
       /\ (runs[r].status = "failed" /\ runs[r].log # <<>>) => Ev(r, "throw") # {}

\* C16 witness: a run has failed at its third step, whose function threw
\* after two nested pipelines had returned, and an earlier run failed on the
\* network inside a nested pipeline.
C16_Witness ==
    \E r, q \in RunIds :
       /\ runs[r].status = "failed"
       /\ runs[r].error = "invalid formLetters"
       /\ Has(r, "throw", 1, 3)
       /\ Has(r, "push", 1, 2)
       /\ Ev(r, "response") # {}
       /\ runs[q].status = "failed"
       /\ runs[q].error = "network error"
       /\ runs[q].frames > 1
\* The third step of a query, invoked with values, finds no match: no event
\* of the events list has the db of getEventResults, or no form of the forms
\* list has the year and the letters of getFormResults.
Unmatched(step, values) ==
    \/ /\ step.kind = "eventLookup"
       /\ where(At(values, 1), "db", Get(step.closure, "eventDbName")) = <<>>
    \/ /\ step.kind = "formLookup"
       /\ \A n \in 1..Len(Elems(At(values, 2))) :
             \/ Get(Elems(At(values, 2))[n], "year") # Get(step.closure, "yearGroup")
             \/ Get(Elems(At(values, 2))[n], "form") # Get(step.closure, "formLetters")

\* The invocations of the third step of the pipeline run r was called on, a
\* lookup that finds no match.
UnmatchedLookups(r) ==
    {n \in Ev(r, "invoke") :
        /\ runs[r].log[n][2] = 1 /\ runs[r].log[n][3] = 3
        /\ Unmatched(builders[runs[r].root].items[3], runs[r].log[n][4])}

ListUrls == {UrlOf(QueryProgram[EventsListBuilder].step),
             UrlOf(QueryProgram[FormsListBuilder].step)}

\* C18 as claimed: a query whose lookup finds no match fails, and no request
\* has been sent by the run when it fails.
C18_NoRequestBeforeFailure ==
    \A r \in RunIds :
       \A n \in UnmatchedLookups(r) :
          /\ Throws(runs[r].log[n][5])
          /\ Ev(r, "axios") = {}

\* C18 amended: a query whose lookup finds no match fails at its third step,
\* before the fetch of the results range is constructed: the fourth step is
\* never invoked and no RequestCache for a range other than the events list
\* and the forms list exists in the run.  The requests of the run are those
\* of the two lists, sent before the lookup, one for each list that was not a
\* cache hit, and none when both were.
C18_FailsBeforeResultsFetch ==
    \A r \in RunIds :
       \A n \in UnmatchedLookups(r) :
          /\ Throws(runs[r].log[n][5])
          /\ ~Has(r, "invoke", 1, 4)
          /\ \A m \in Ev(r, "invoke") :
                IsFetchCall(r, m) =>
                   /\ m < n
                   /\ FetchOf(r, m).url \in ListUrls
                   /\ Has(r, "hit", runs[r].log[m][2], runs[r].log[m][3])
                         # Has(r, "axios", runs[r].log[m][2], runs[r].log[m][3])
          /\ \A m \in Ev(r, "axios") : m < n /\ runs[r].log[m][4] \in ListUrls
          /\ Cardinality(Ev(r, "axios")) <= 2

\* C18 witness: getEventResults for an event the events list does not hold
\* has failed after two requests, those of the lists, were sent and answered.
C18_Witness ==
    \E r \in RunIds :
       /\ runs[r].status = "failed"
       /\ runs[r].error = "invalid eventDbName"
       /\ UnmatchedLookups(r) # {}
       /\ Cardinality(Ev(r, "axios")) = 2
       /\ Cardinality(Ev(r, "response")) = 2
\* The error the third step of a query is to throw for the values it is
\* invoked with, "none" when the parameters are valid.  The checks are made in
\* this order, so that of two invalid parameters the first is reported.
ValidationError(step, values) ==
    LET events == Elems(At(values, 1))
        forms  == Elems(At(values, 2))
        year   == Get(step.closure, "yearGroup")
    IN  IF step.kind = "eventLookup"
        THEN IF \A n \in 1..Len(events) :
                   Get(events[n], "db") # Get(step.closure, "eventDbName")
             THEN "invalid eventDbName"
             ELSE IF year \notin {Num(7), Num(8), Num(9), Num(10)}
             THEN "invalid yearGroup"
             ELSE "none"
        ELSE IF \A n \in 1..Len(forms) : Get(forms[n], "year") # year
             THEN "invalid yearGroup"
             ELSE IF \A n \in 1..Len(forms) :
                        \/ Get(forms[n], "year") # year
                        \/ Get(forms[n], "form") # Get(step.closure, "formLetters")
             THEN "invalid formLetters"
             ELSE "none"

\* C19: the third step of getEventResults throws "invalid eventDbName" when no
\* event of the events list has the db and "invalid yearGroup" when (an event
\* matching) the year group is none of 7, 8, 9, 10; the third step of
\* getFormResults throws "invalid yearGroup" when no form has the year and
\* "invalid formLetters" when (the year having forms) the form is not among
\* them; with valid parameters it does not throw.  The error thrown is the
\* error the run fails with: the run has no result, its fourth step is not
\* invoked and no fetch of a results range exists in it.
C19_ValidationErrors ==
    \A r \in RunIds :
       \A n \in Ev(r, "invoke") :
          (runs[r].log[n][2] = 1 /\ runs[r].log[n][3] = 3) =>
             LET error == ValidationError(builders[runs[r].root].items[3],
                                          runs[r].log[n][4])
             IN  IF error = "none" THEN ~Throws(runs[r].log[n][5])
                 ELSE /\ runs[r].log[n][5] = <<"throw", error>>
                      /\ runs[r].status = "failed"
                      /\ runs[r].error = error
                      /\ runs[r].result = Undefined
                      /\ ~Has(r, "invoke", 1, 4)
                      /\ \A m \in Ev(r, "invoke") :
                            IsFetchCall(r, m) => FetchOf(r, m).url \in ListUrls

\* C19 witness: getEventResults for a year group outside 7..10 has failed
\* with "invalid yearGroup" and, before it, getFormResults for a form that is
\* not of the year with "invalid formLetters".
C19_Witness ==
    \E r, q \in RunIds :
       /\ runs[r].status = "failed"
       /\ runs[r].error = "invalid yearGroup"
       /\ builders[runs[r].root].items[3].kind = "eventLookup"
       /\ Has(r, "throw", 1, 3)
       /\ runs[q].status = "failed"
       /\ runs[q].error = "invalid formLetters"
\* The fetches of the list behind url in run r, of a run of the pipeline of
\* getEventResults called with allowCache = false when a text that parses was
\* stored under the key of the list.
RefreshFetches(r, url) ==
    {n \in Ev(r, "invoke") :
        /\ builders[runs[r].root].items[3].kind = "eventLookup"
        /\ ~runs[r].allowCache
        /\ IsFetchCall(r, n)
        /\ FetchOf(r, n).url = url
        /\ \E m \in 1..Len(runs[r].log) :
              /\ runs[r].log[m][1] \in {"get", "live"}
              /\ runs[r].log[m][2] = runs[r].log[n][2]
              /\ runs[r].log[m][3] = runs[r].log[n][3]
              /\ runs[r].log[m][5] # Null /\ JsonParses(runs[r].log[m][5])}

NewEvents(r) ==
    IF /\ runs[r].status = "running"
       /\ Len(runs'[r].log) > Len(runs[r].log)
    THEN SubSeq(runs'[r].log, Len(runs[r].log) + 1, Len(runs'[r].log))
    ELSE <<>>

\* The texts run r has stored under key.
Written(r, key) ==
    {runs[r].log[n][5] : n \in {m \in Ev(r, "setItem") : runs[r].log[m][4] = key}}

\* Run r waits for the answer to its request for a fetch with key.
InFlight(r, key) ==
    /\ runs[r].status = "running"
    /\ Top(r).awaiting = "axios"
    /\ Top(r).rc.requestKey = key

\* C21: two runs over one cache perform live() on fetches with the same key
\* side by side.  Each write puts the whole text the writer produced under the
\* key, and nothing else changes the cache, so the entry is that of the write
\* that landed last; once both have written the entry is present and is the
\* text of one of the two; and each request in flight is settled whatever the
\* other run does, so that both fetches complete.
C21_LastWriteWins ==
    /\ [][/\ \A r \in RunIds :
                \A n \in 1..Len(NewEvents(r)) :
                   NewEvents(r)[n][1] = "setItem" =>
                      /\ NewEvents(r)[n][4] \in DOMAIN storage'
                      /\ storage'[NewEvents(r)[n][4]] = NewEvents(r)[n][5]
          /\ storage' # storage =>
                \E r \in RunIds :
                   \E n \in 1..Len(NewEvents(r)) : NewEvents(r)[n][1] = "setItem"]_vars
    /\ [](\A key \in {md5(u) : u \in Urls} :
             (Written(1, key) # {} /\ Written(2, key) # {}) =>
                /\ key \in DOMAIN storage
                /\ storage[key] \in Written(1, key) \cup Written(2, key))
    /\ \A r \in RunIds :
          \A key \in {md5(u) : u \in Urls} :
             (InFlight(1, key) /\ InFlight(2, key)) ~> ~InFlight(r, key)

\* C21 witness: both runs entered live() or get() on the same key when nothing
\* was stored under it, both have stored a text and returned, the texts
\* differ, and the entry is one of them.
C21_Witness ==
    \E key \in {md5(u) : u \in Urls} :
       /\ \A r \in RunIds :
             /\ runs[r].status = "done"
             /\ Written(r, key) # {}
             /\ \E n \in Ev(r, "live") \cup Ev(r, "get") :
                   runs[r].log[n][4] = key /\ runs[r].log[n][5] = Null
       /\ Written(1, key) \cap Written(2, key) = {}
       /\ storage[key] \in Written(2, key)
\* The keys whose entry a step sets, replaces or removes.
ChangedKeys ==
    {k \in DOMAIN storage \cup DOMAIN storage' :
        \/ k \notin DOMAIN storage
        \/ k \notin DOMAIN storage'
        \/ storage'[k] # storage[k]}

\* C22: a RequestCache governs the entry of its own key only.  In every step
\* of every interleaving of two runs, an entry changes only under the key of
\* a fetch whose live() is storing its result in that step, and what get() or
\* live() of a fetch reads on entry, and what a hit returns, is the entry under
\* the key of that fetch.
C22_SingleKey ==
    [][/\ \A k \in ChangedKeys :
             \E r \in RunIds :
                /\ InFlight(r, k)
                /\ \E n \in 1..Len(NewEvents(r)) :
                      NewEvents(r)[n][1] = "setItem" /\ NewEvents(r)[n][4] = k
       /\ \A r \in RunIds :
             \A n \in 1..Len(NewEvents(r)) :
                LET e == NewEvents(r)[n]
                IN  /\ e[1] \in {"get", "live"} =>
                          /\ e[4] = NewEvents(r)[1][5][2].requestKey
                          /\ e[5] = IF e[4] \in DOMAIN storage
                                    THEN storage[e[4]] ELSE Null
                    /\ e[1] = "hit" =>
                          /\ e[4] = NewEvents(r)[1][5][2].requestKey
                          /\ NewEvents(r)[n + 1] =
                                <<"push", e[2], e[3], JsonParse(storage[e[4]])>>]_vars

\* C22 witness: the two runs fetched live side by side under two keys, each
\* stored its own result, and the two entries stand with their own texts.
C22_Witness ==
    \E ka, kb \in DOMAIN storage :
       /\ ka # kb
       /\ storage[ka] # storage[kb]
       /\ storage[ka] \in Written(1, ka)
       /\ storage[kb] \in Written(2, kb)
       /\ \A r \in RunIds :
             /\ runs[r].status = "done"
             /\ \A n \in Ev(r, "live") \cup Ev(r, "get") : runs[r].log[n][5] = Null
\* run() on builder b from its item i + 1 on, with values resolved so far,
\* when every fetch is resolved by the request alone, with no cache: the
\* composition of the step functions and parsers over the backend data.
RECURSIVE PureFrom(_, _, _)
PureFrom(b, i, values) ==
    IF i = Len(builders[b].items)
    THEN [status |-> "done", result |-> LastValue(values), error |-> "none"]
    ELSE LET returned == Item(builders[b].items[i + 1], values)
         IN  CASE IsRequestCache(returned) ->
                    LET parsed == parse(returned[2], backend[returned[2].url])
                    IN  IF parsed.ok
                        THEN PureFrom(b, i + 1, Append(values, parsed.value))
                        ELSE [status |-> "failed", result |-> Undefined,
                              error |-> parsed.error]
               [] IsRequestBuilder(returned) ->
                    LET nested == PureFrom(returned[2], 0, <<>>)
                    IN  IF nested.status = "done"
                        THEN PureFrom(b, i + 1, Append(values, nested.result))
                        ELSE nested
               [] Throws(returned) ->
                    [status |-> "failed", result |-> Undefined, error |-> returned[2]]
               [] OTHER -> PureFrom(b, i + 1, Append(values, returned))

\* How run r ended.
Outcome(r) ==
    [status |-> runs[r].status, result |-> runs[r].result, error |-> runs[r].error]

\* Run r, called with allowCache = false, has ended, its requests were all
\* answered, and the backend data is what it was when the run began.
RefreshEnded(r) ==
    /\ runs[r].log # <<>>
    /\ runs[r].status \in {"done", "failed"}
    /\ runs[r].error # "network error"
    /\ ~runs[r].allowCache
    /\ runs[r].changesAtStart = changes

\* No builder nested in run r had alwaysCache set when it was run.
NoNestedAlwaysCache(r) ==
    \A n \in Ev(r, "run") : runs[r].log[n][2] # 0 => ~runs[r].log[n][7]

\* C23 as claimed: a run with allowCache = false ends as the composition of
\* its steps over the backend data does, whatever the cache held when it began;
\* so any two such runs over the same backend data end alike.
C23_Deterministic ==
    \A r \in RunIds :
       RefreshEnded(r) => Outcome(r) = PureFrom(runs[r].root, 0, <<>>)

\* C23 amended: a run with allowCache = false in which no nested pipeline has
\* alwaysCache set ends as the composition of its steps over the backend data
\* does, whatever the cache held when it began; so any two such runs over the
\* same backend data end alike.
C23_DeterministicUnmarked ==
    \A r \in RunIds :
       (RefreshEnded(r) /\ NoNestedAlwaysCache(r)) =>
          Outcome(r) = PureFrom(runs[r].root, 0, <<>>)

\* C23 witness: such a run of a pipeline with nested pipelines has returned,
\* and the cache held under the key of one of its fetches, when the fetch
\* began, a text other than the one the fetch then stored.
C23_Witness ==
    \E r \in RunIds :
       /\ RefreshEnded(r) /\ NoNestedAlwaysCache(r)
       /\ runs[r].status = "done"
       /\ runs[r].root = 7
       /\ \E n \in Ev(r, "live"), m \in Ev(r, "setItem") :
             /\ runs[r].log[n][4] = runs[r].log[m][4]
             /\ runs[r].log[n][5] # Null
             /\ JsonParses(runs[r].log[n][5])
             /\ runs[r].log[n][5] # runs[r].log[m][5]
\* The last column of header row h that carries the name of column j.
LastColumn(h, j) ==
    CHOOSE c \in 1..Len(h) : h[c] = h[j] /\ \A d \in (c + 1)..Len(h) : h[d] # h[j]

\* C24 as claimed: twoDimensionParser maps a grid with header row h and n
\* rows of data to n records, in the order of the rows, record r mapping each
\* header h[j] to cell grid[r + 1][j]; a grid of the header row alone gives the
\* empty sequence.
C24_RecordPerRow ==
    \A a \in 1..Len(requests) :
       LET rows    == requests[a].response[2]
           h       == rows[1]
           records == requests[a].parsed.value[2]
       IN  /\ requests[a].parsed.ok
           /\ Len(records) = Len(rows) - 1
           /\ \A r \in 1..Len(records) :
                 \A j \in 1..Len(h) :
                    Get(records[r], h[j][2]) = At(rows[r + 1], j)

\* C24 amended: twoDimensionParser maps a grid with header row h and n rows
\* of data to n records, in the order of the rows; the names of record r are
\* the distinct names of h, and record r maps name h[j] to the cell of row
\* r + 1 in the last column that carries the name, which is grid[r + 1][j]
\* when no later column repeats it (undefined when the row is too short); a
\* grid of the header row alone gives the empty sequence.
C24_RecordPerRowLastColumn ==
    \A a \in 1..Len(requests) :
       LET rows    == requests[a].response[2]
           h       == rows[1]
           records == requests[a].parsed.value[2]
       IN  /\ requests[a].parsed.ok
           /\ requests[a].parsed.value[1] = "arr"
           /\ Len(records) = Len(rows) - 1
           /\ \A r \in 1..Len(records) :
                 /\ records[r][1] = "obj"
                 /\ {records[r][2][n][1] : n \in 1..Len(records[r][2])}
                       = {h[j][2] : j \in 1..Len(h)}
                 /\ Len(records[r][2]) = Cardinality({h[j][2] : j \in 1..Len(h)})
                 /\ \A j \in 1..Len(h) :
                       Get(records[r], h[j][2]) = At(rows[r + 1], LastColumn(h, j))

\* C24 witness: a grid of two columns with different names and two rows of
\* data that differ has been parsed into two records.
C24_Witness ==
    \E a \in 1..Len(requests) :
       LET rows == requests[a].response[2]
       IN  /\ Len(rows) = 3
           /\ Len(rows[1]) = 2 /\ rows[1][1] # rows[1][2]
           /\ Len(rows[2]) = 2 /\ Len(rows[3]) = 2 /\ rows[2] # rows[3]
           /\ Len(requests[a].parsed.value[2]) = 2
\* The letters A to Z, and the number a string of them denotes as a bijective
\* numeral of base 26: A is 1, Z is 26, AA is 27.
Alphabet == {fromCharCode(code) : code \in 65..90}

DigitOf(letter) == CHOOSE d \in 1..26 : fromCharCode(64 + d) = letter

RECURSIVE NumeralValue(_)
NumeralValue(letters) ==
    IF letters = <<>> THEN 0
    ELSE 26 * NumeralValue(SubSeq(letters, 1, Len(letters) - 1))
         + DigitOf(letters[Len(letters)])

\* C25: for every column number n from 1 to MaxColumn, the loop of
\* intToSpreadsheetColLetter ends, after as many rounds as the numeral has
\* letters; the result is made of letters A to Z only and is the bijective
\* numeral of base 26 of n; and no other column number gives the same result.
C25_ColumnLetters ==
    \A a \in 1..Len(requests) :
       LET n       == requests[a].number
           letters == requests[a].letters
       IN  /\ Len(letters) = (IF n <= 26 THEN 1 ELSE IF n <= 702 THEN 2 ELSE 3)
           /\ \A c \in 1..Len(letters) : letters[c] \in Alphabet
           /\ NumeralValue(letters) = n
           /\ n = 1 => letters = <<"A">>
           /\ n = 2 => letters = <<"B">>
           /\ n = 26 => letters = <<"Z">>
           /\ n = 27 => letters = <<"A", "A">>
           /\ \A m \in 1..MaxColumn :
                 m # n => intToSpreadsheetColLetter(m) # letters

\* C25 witness: a column number past ZZ has been converted, to three letters.
C25_Witness ==
    \E a \in 1..Len(requests) :
       /\ requests[a].number = 703
       /\ requests[a].letters = <<"A", "A", "A">>
\* C26: a nested pipeline is run with (allowCache of the run that returned
\* it) or (its alwaysCache flag).  Hence the allowCache of every activation is
\* the argument of the root run() or the alwaysCache flag of one of the nested
\* pipelines on the path from below the root down to the activation; an
\* activation below one with allowCache true has allowCache true; and every
\* activation under way resolves its steps with that value.
C26_EffectiveAllowCache ==
    \A r \in RunIds :
       /\ \A n \in Ev(r, "run") :
             LET e == runs[r].log[n]
             IN  /\ e[2] = 0 => e[6] = runs[r].allowCache
                 /\ e[2] # 0 =>
                       /\ e[6] = (AllowCacheOf(r, e[2]) \/ e[7])
                       /\ AllowCacheOf(r, e[2]) => e[6]
                 /\ e[6] = (runs[r].allowCache \/ MarkedAbove(r, e[4]))
       /\ \A k \in 1..Len(runs[r].stack) :
             runs[r].stack[k].allowCache = AllowCacheOf(r, runs[r].stack[k].f)

\* C26 witness: a run with allowCache = false has returned in which an
\* unmarked pipeline two levels below the root ran with allowCache true, its
\* parent being marked, and a pipeline one level below the root ran with
\* allowCache false.
C26_Witness ==
    \E r \in RunIds :
       /\ runs[r].status = "done"
       /\ ~runs[r].allowCache
       /\ \E g, h \in Activations(r) :
             /\ ParentOf(r, g) # 0 /\ ParentOf(r, ParentOf(r, g)) # 0
             /\ ~AlwaysCacheOf(r, g) /\ AllowCacheOf(r, g)
             /\ AlwaysCacheOf(r, ParentOf(r, g))
             /\ ParentOf(r, h) # 0 /\ ~AllowCacheOf(r, h)
\* C27: the builder add returns has alwaysCache = false, also when the
\* builder add was called on has the flag set; and setting the flag of a
\* builder sets it on that builder alone, so that no builder made from it by
\* add, before or after, carries it.
C27_AddDropsFlag ==
    [][/\ \A base \in 1..Len(builders), step \in StepChoices :
             Add(base, step) =>
                /\ ~builders'[Len(builders')].alwaysCache
                /\ builders'[base].alwaysCache = builders[base].alwaysCache
       /\ \A b \in 1..Len(builders) :
             SetAlwaysCache(b) =>
                \A c \in 1..Len(builders) :
                   c # b => builders'[c].alwaysCache = builders[c].alwaysCache]_vars

\* C27 witness: a builder with a step has the flag set, and two builders in
\* line after it, each made by add on the one before, have it not.
C27_Witness ==
    \E a, c, d \in 1..Len(builders) :
       /\ a < c /\ c < d
       /\ builders[a].items = <<StepA>> /\ builders[a].alwaysCache
       /\ builders[c].items = <<StepA, StepB>> /\ ~builders[c].alwaysCache
       /\ builders[d].items = <<StepA, StepB, ValuesStep>> /\ ~builders[d].alwaysCache
\* C28: a fetch without parser that is resolved by live(), or by get() when
\* cache() throws, sends its request before anything fails: the run waits for
\* the answer, and "parser not specified" is thrown when the response has come
\* (the network error when none comes), with nothing pushed and nothing stored:
\* the entry of the key is as the fetch found it.
C28_ParserErrorAfterResponse ==
    \A r \in RunIds :
       \A n \in Ev(r, "invoke") :
          LET f == runs[r].log[n][2]
              i == runs[r].log[n][3]
          IN  (/\ IsFetchCall(r, n)
               /\ FetchOf(r, n).parser = "none"
               /\ ~Has(r, "hit", f, i)) =>
                 LET via   == IF Has(r, "get", f, i) THEN "get" ELSE "live"
                     saved == EvAt(r, via, f, i)[5]
                     key   == FetchOf(r, n).requestKey
                 IN  /\ Kinds(StepEvents(r, f, i)) \in
                           {<<"invoke", via, "axios">>,
                            <<"invoke", via, "axios", "response", "throw">>,
                            <<"invoke", via, "axios", "throw">>}
                     /\ Has(r, "response", f, i) =>
                           /\ runs[r].status = "failed"
                           /\ runs[r].error = "parser not specified"
                           /\ EvAt(r, "throw", f, i)[4] = "parser not specified"
                     /\ (Has(r, "throw", f, i) /\ ~Has(r, "response", f, i)) =>
                           runs[r].error = "network error"
                     /\ ~Has(r, "response", f, i) /\ ~Has(r, "throw", f, i) =>
                           runs[r].status = "running"
                     /\ IF saved = Null THEN key \notin DOMAIN storage
                        ELSE key \in DOMAIN storage /\ storage[key] = saved

\* C28 witness: get() on a fetch without parser found nothing stored, the
\* request was answered, and the run failed with "parser not specified",
\* nothing being stored under the key.
C28_Witness ==
    \E r \in RunIds :
       /\ runs[r].status = "failed" /\ runs[r].error = "parser not specified"
       /\ runs[r].allowCache
       /\ \E n \in Ev(r, "get") :
             /\ runs[r].log[n][5] = Null
             /\ Has(r, "response", runs[r].log[n][2], runs[r].log[n][3])
             /\ runs[r].log[n][4] \notin DOMAIN storage
\* C29: when a run has failed, what the fetches of its earlier steps stored,
\* those of nested pipelines that had returned among them, is in the cache:
\* under every key the run stored a text, the entry is the text it stored
\* there last.
C29_NoRollback ==
    \A r \in RunIds :
       runs[r].status = "failed" =>
          \A n \in Ev(r, "setItem") :
             (\A m \in Ev(r, "setItem") :
                 runs[r].log[m][4] = runs[r].log[n][4] => m <= n) =>
                /\ runs[r].log[n][4] \in DOMAIN storage
                /\ storage[runs[r].log[n][4]] = runs[r].log[n][5]

\* C29 witness: a query failed at its third step, on the validation of its
\* parameters, after the nested pipelines of the events list and of the
\* forms list had fetched and returned; what they stored is in the cache.
C29_Witness ==
    \E r \in RunIds :
       /\ runs[r].status = "failed"
       /\ runs[r].error = "invalid eventDbName"
       /\ Cardinality(Ev(r, "setItem")) = 2
       /\ Cardinality(Ev(r, "return")) = 2
       /\ \A n \in Ev(r, "setItem") :
             /\ runs[r].log[n][2] # 1
             /\ storage[runs[r].log[n][4]] = runs[r].log[n][5]
\* The pipelines of one fetch each whose fetches have the key of range a: with
\* twoDimensionParser, with no parser, and with the parser of the first cell.
SameKeyRoots == {2, 8, 9}

\* C30: what a hit returns depends on the key alone.  When a run of one such
\* pipeline has returned a value, a run(true) called next on another of them,
\* whose fetch has the same key and another parser, resolves its fetch to that
\* value as JSON keeps it: the parser of the second fetch is not applied, and
\* no request is sent.
C30_HitIgnoresParser ==
    \A r, q \in RunIds :
       (/\ r # q
        /\ runs[r].log # <<>> /\ runs[r].allowCache
        /\ runs[q].log = <<>> /\ runs[q].status = "done"
        /\ runs[q].result # Undefined
        /\ runs[r].root \in SameKeyRoots /\ runs[q].root \in SameKeyRoots
        /\ runs[r].root # runs[q].root) =>
          /\ \A n \in Ev(r, "invoke") :
                /\ Kinds(StepEvents(r, 1, 1)) = <<"invoke", "get", "hit", "push">>
                /\ EvAt(r, "push", 1, 1)[4] = JsonTree(runs[q].result)
          /\ runs[r].status \in {"running", "done"}
          /\ runs[r].status = "done" => runs[r].result = JsonTree(runs[q].result)

\* C30 witness: the fetch of range a with twoDimensionParser returned its
\* records, and the run(true) called next, of the fetch of range a with the
\* parser of the first cell, returned those records.
C30_Witness ==
    \E r, q \in RunIds :
       /\ r # q
       /\ runs[q].root = 2 /\ runs[q].status = "done" /\ runs[q].log = <<>>
       /\ runs[r].root = 9 /\ runs[r].status = "done" /\ runs[r].allowCache
       /\ Ev(r, "hit") # {}
       /\ runs[r].result[1] = "arr"
       /\ runs[r].result = JsonTree(runs[q].result)
\* C31: the cache is only ever added to or overwritten.  No step removes an
\* entry; a step in which get() hits leaves the whole cache as it is; an entry
\* is set or replaced only in a step in which live() of a fetch with that key
\* has its response parsed and stores the result; and a run that has returned
\* with every fetch a hit has stored nothing.
C31_HitsReadOnly ==
    /\ [][/\ \A k \in DOMAIN storage : k \in DOMAIN storage'
          /\ (\E r \in RunIds :
                 \E n \in 1..Len(NewEvents(r)) : NewEvents(r)[n][1] = "hit")
                => storage' = storage
          /\ \A k \in DOMAIN storage' :
                (k \notin DOMAIN storage \/ storage'[k] # storage[k]) =>
                   \E r \in RunIds :
                      /\ InFlight(r, k)
                      /\ Kinds(NewEvents(r)) = <<"response", "setItem", "push">>
                      /\ NewEvents(r)[2][4] = k
                      /\ NewEvents(r)[2][5] = storage'[k]]_vars
    /\ [](\A r \in RunIds :
             (/\ runs[r].status = "done"
              /\ \A n \in Ev(r, "invoke") :
                    IsFetchCall(r, n) =>
                       Has(r, "hit", runs[r].log[n][2], runs[r].log[n][3])) =>
                Ev(r, "setItem") = {})

\* C31 witness: a run of a pipeline with two nested fetches has returned with
\* both fetches hits and nothing stored, the two entries being in the cache.
C31_Witness ==
    \E r \in RunIds :
       /\ runs[r].status = "done"
       /\ runs[r].root = 7
       /\ Cardinality(Ev(r, "hit")) = 2
       /\ Ev(r, "setItem") = {} /\ Ev(r, "axios") = {}
       /\ Cardinality(DOMAIN storage) = 2
\* C32: fetches in flight are not shared.  In every interleaving of two runs,
\* a fetch that get() does not resolve from the cache sends a request of its
\* own, also while the other run has one in flight for the same key; and the
\* value the step resolves to is what the parser of its own fetch makes of the
\* answer to its own request.
C32_NoDeduplication ==
    \A r \in RunIds :
       \A n \in Ev(r, "get") :
          LET f  == runs[r].log[n][2]
              i  == runs[r].log[n][3]
              rc == EvAt(r, "invoke", f, i)[5][2]
          IN  ~Has(r, "hit", f, i) =>
                 /\ Cardinality(EvOf(r, "axios", f, i)) = 1
                 /\ EvAt(r, "axios", f, i)[4] = rc.url
                 /\ Has(r, "push", f, i) =>
                       /\ Has(r, "response", f, i)
                       /\ EvAt(r, "push", f, i)[4]
                             = parse(rc, EvAt(r, "response", f, i)[4]).value
                 /\ (runs[r].status = "done" /\ Len(builders[runs[r].root].items) = i) =>
                       runs[r].result = parse(rc, EvAt(r, "response", f, i)[4]).value

\* C32 witness: two runs with allowCache = true have each found nothing stored
\* under the same key and each has its request for it in flight.
C32_Witness ==
    \E key \in {md5(u) : u \in Urls} :
       /\ key \notin DOMAIN storage
       /\ \A r \in RunIds :
             /\ runs[r].allowCache
             /\ InFlight(r, key)
             /\ \E n \in Ev(r, "get") :
                   runs[r].log[n][4] = key /\ runs[r].log[n][5] = Null
             /\ Cardinality(Ev(r, "axios")) = 1
\* C33: run() takes what a step function returns for a fetch or a nested
\* pipeline only when the value is itself a RequestCache or a RequestBuilder.
\* Any other value is pushed as it is, the step reading no cache, sending no
\* request and starting no nested run; so is the promise a step function hands
\* on from an async method, though it resolves to a pipeline.
C33_PromisePushedUnresolved ==
    \A r \in RunIds :
       \A n \in Ev(r, "invoke") :
          LET f        == runs[r].log[n][2]
              i        == runs[r].log[n][3]
              returned == runs[r].log[n][5]
              step     == builders[BuilderOf(r, f)].items[i]
          IN  /\ step.kind = "async" =>
                    /\ ~IsRequestCache(returned) /\ ~IsRequestBuilder(returned)
                    /\ returned = <<"promise", <<"builder", step.id>> >>
              /\ (~IsRequestCache(returned) /\ ~IsRequestBuilder(returned)) =>
                    /\ Kinds(StepEvents(r, f, i)) = <<"invoke", "push">>
                    /\ EvAt(r, "push", f, i)[4] = returned
              /\ (Has(r, "get", f, i) \/ Has(r, "live", f, i) \/ Has(r, "axios", f, i))
                    => IsRequestCache(returned)
              /\ Has(r, "run", f, i) => IsRequestBuilder(returned)

\* C33 witness: the pipeline whose first step hands on the promise of
\* getYearGroupRecords and whose second returns the values it is given has
\* returned: the second step was given the promise, and the run read no cache
\* and sent no request.
C33_Witness ==
    \E r \in RunIds :
       /\ runs[r].status = "done"
       /\ runs[r].root = 5
       /\ runs[r].result = Arr(<< <<"promise", <<"builder", 2>> >> >>)
       /\ Ev(r, "get") = {} /\ Ev(r, "live") = {} /\ Ev(r, "axios") = {}
       /\ Cardinality(Ev(r, "run")) = 1
\* C34: every run ends.  With every request settled in the end, a run that
\* is under way returns a value or fails; and it sends at most one request for
\* each step that returned a RequestCache.
C34_RunTerminates ==
    /\ \A r \in RunIds :
          (runs[r].status = "running") ~> (runs[r].status \in {"done", "failed"})
    /\ [](\A r \in RunIds :
             /\ \A n \in Ev(r, "invoke") :
                   Cardinality(EvOf(r, "axios", runs[r].log[n][2], runs[r].log[n][3]))
                      <= (IF IsFetchCall(r, n) THEN 1 ELSE 0)
             /\ \A n \in Ev(r, "axios") :
                   Has(r, "invoke", runs[r].log[n][2], runs[r].log[n][3]))

\* C34 witness: a run of the pipeline nesting the records pipeline has
\* returned after the one request of its one fetch, and the run before it
\* ended on the failure of its request.
C34_Witness ==
    \E r, q \in RunIds :
       /\ runs[r].status = "done"
       /\ runs[r].root = 4
       /\ runs[r].frames = 2
       /\ Cardinality(Ev(r, "axios")) = 1
       /\ Cardinality({n \in Ev(r, "invoke") : IsFetchCall(r, n)}) = 1
       /\ runs[q].status = "failed" /\ runs[q].error = "network error"
\* C35: run() on a pipeline with no steps, with allowCache true or false,
\* returns undefined: the run is called and returns, and in between no step
\* is invoked, no cache entry is read or written and no request is sent.
C35_EmptyPipeline ==
    \A r \in RunIds :
       (runs[r].status # "idle" /\ builders[runs[r].root].items = <<>>) =>
          /\ runs[r].status \in {"running", "done"}
          /\ runs[r].log # <<>> =>
                Kinds(runs[r].log) \in {<<"run">>, <<"run", "return">>}
          /\ runs[r].status = "done" => runs[r].result = Undefined

\* C35 witness: the pipeline with no steps has been run with allowCache true
\* and then with allowCache false, an entry being in the cache, and both runs
\* returned undefined.
C35_Witness ==
    \E r, q \in RunIds :
       /\ runs[r].status = "done" /\ builders[runs[r].root].items = <<>>
       /\ runs[q].status = "done" /\ builders[runs[q].root].items = <<>>
       /\ runs[q].allowCache /\ ~runs[r].allowCache
       /\ last = r
       /\ Kinds(runs[r].log) = <<"run", "return">>
       /\ runs[r].result = Undefined /\ runs[q].result = Undefined
       /\ DOMAIN storage # {}
====
